---------------------------- MODULE Spec2Model ----------------------------
(***************************************************************************)
(* Exhaustive vertex enumeration for linear programs in standard form      *)
(*     maximize c.x  subject to  A x <= b,  x >= 0                         *)
(* (LP_exhaustive_vs_simplex_fixed.qmd), compared against the reference    *)
(* solver scipy.optimize.linprog.                                          *)
(*                                                                         *)
(* Numbers.  The inputs are integer valued (generate_random_LPP rounds its *)
(* draws with np.rint).  The points computed by np.linalg.solve are        *)
(* modelled exactly, as reduced fractions <<p, q>> with q > 0; the         *)
(* tolerances of the source (1e-14, 1e-10, 5 decimals) are kept and are    *)
(* applied to these exact values.  Floating-point rounding error of the    *)
(* linear solve is therefore outside the model.                            *)
(*                                                                         *)
(* Indices.  Row combinations hold the 0-based row indices of the source;  *)
(* sequences are 1-based, so row i of the source is element i + 1.         *)
(***************************************************************************)
EXTENDS Integers, Sequences, FiniteSets

VARIABLES
    A,                  \* m x n constraint matrix (sequence of rows)
    b,                  \* right-hand sides
    c,                  \* objective coefficients
    pc,                 \* position of the control flow
    combos,             \* row_index_combinations: what the iterator still yields
    feasible_vertices,  \* feasible_vertices of get_vertices
    visited,            \* row combinations the for loop has taken so far
    suppressed,         \* exceptions the bare except has swallowed in this call
    exhaustive_res,     \* outcome of LP_exhaustive_search
    scipy_res,          \* outcome of LP_simplex
    memo,               \* an earlier call and its outcome (SpecCalls only)
    solved,             \* the array x of get_vertices with its rounding error
                        \* (SpecSnap only)
    iteration,              \* passes of the comparison loop started so far
    scipy_test_results,     \* the m + n of the (m + n, duration) pairs, in order
    exhaustive_test_results, \* likewise for the exhaustive search
    nq,                 \* ip_nqueens: its argument n
    level,              \* ip_nqueens: the loop variable k, then l
    cell,               \* ip_nqueens: the loop variables <<i, j>>
    diagonal,           \* ip_nqueens: the list diagonal
    G,                  \* graph_coloring, min_cost_network_flow: the graph
    with_congestion,    \* min_cost_network_flow: its flag
    points,             \* chebyshev_center: its argument P
    radius,             \* chebyshev_center: r.value after problem.solve()
    comfort_levels,     \* keyboard model: comfort of the positions
    frequency_ranking,  \* keyboard model: frequency of the numbers
    distances,          \* keyboard model: the distance cost matrix
    C,                  \* keyboard model: the cost matrix with the distances
    constraints,        \* the list of constraints built so far
    X,                  \* X.value after problem.solve()
    W,                  \* W.value after problem.solve()
    ret                 \* what the function returned

\* the variables of the two solvers and of one pass of the comparison loop
lp == <<A, b, c, pc, combos, feasible_vertices, visited, suppressed,
        exhaustive_res, scipy_res, memo>>

\* the bookkeeping of the comparison loop
harness == <<iteration, scipy_test_results, exhaustive_test_results>>

\* the variables of the solvers without the control position
lp_data == <<A, b, c, combos, feasible_vertices, visited, suppressed,
             exhaustive_res, scipy_res, memo, solved>>

\* the programs built on cvxpy: their arguments and the state of the model
queens_in == <<nq, level, cell, diagonal>>

graph_in == <<G, with_congestion>>

chebyshev_in == <<points, radius>>

keyboard_in == <<comfort_levels, frequency_ranking, distances, C>>

cvx_state == <<constraints, X, W, ret>>

cvx == <<queens_in, graph_in, chebyshev_in, keyboard_in, cvx_state>>

\* what the steps of the exact model of the solvers leave alone
outside_lp == <<harness, cvx, solved>>

vars == <<lp, outside_lp>>

-----------------------------------------------------------------------------
(* Bounds of the model *)

MaxDim == 2

MaxVal == 2

MaxLater == 2

(* Tolerances of the source, as negative powers of ten *)

SnapTolExp == 14

FeasTolExp == 10

AssertDecimals == 5

-----------------------------------------------------------------------------
(* Exact rational arithmetic *)

Abs(x) == IF x < 0 THEN -x ELSE x

RECURSIVE GCD(_, _)
GCD(x, y) == IF y = 0 THEN x ELSE GCD(y, x % y)

Sign(x) == IF x < 0 THEN -1 ELSE IF x > 0 THEN 1 ELSE 0

\* the reduced fraction p / q (q # 0)
Rat(p, q) ==
    LET g == GCD(Abs(p), Abs(q))
    IN  <<Sign(q) * (p \div g), Abs(q) \div g>>

RatOf(k) == <<k, 1>>

RAdd(x, y) == Rat(x[1] * y[2] + y[1] * x[2], x[2] * y[2])

RNeg(x) == <<-x[1], x[2]>>

RSub(x, y) == RAdd(x, RNeg(y))

RMulInt(k, x) == Rat(k * x[1], x[2])

RLeq(x, y) == x[1] * y[2] <= y[1] * x[2]

RLt(x, y) == x[1] * y[2] < y[1] * x[2]

\* x < 10^-e, for a fraction x and e >= 0
RECURSIVE LtPow10(_, _, _)
LtPow10(p, q, e) ==
    IF e = 0 THEN p < q ELSE LtPow10(p, (q + 9) \div 10, e - 1)

RLtTol(x, e) == LtPow10(x[1], x[2], e)

\* x <= 10^-e, for a fraction x and e >= 0
RECURSIVE LeqPow10(_, _, _)
LeqPow10(p, q, e) ==
    IF e = 0 THEN p <= q ELSE LeqPow10(p, q \div 10, e - 1)

RLeqTol(x, e) == LeqPow10(x[1], x[2], e)

RAbs(x) == <<Abs(x[1]), x[2]>>

RECURSIVE Pow10(_)
Pow10(e) == IF e = 0 THEN 1 ELSE 10 * Pow10(e - 1)

\* np.round(x, d): x scaled by 10^d and rounded half to even, as an integer
\* count of units 10^-d
Round(x, d) ==
    LET num == x[1] * Pow10(d)
        fl  == num \div x[2]
        twice == 2 * (num % x[2])
    IN  IF twice < x[2] THEN fl
        ELSE IF twice > x[2] THEN fl + 1
        ELSE IF fl % 2 = 0 THEN fl ELSE fl + 1

RECURSIVE SumTo(_, _)
\* f[1] + ... + f[k] over integers
SumTo(f, k) == IF k = 0 THEN 0 ELSE f[k] + SumTo(f, k - 1)

RECURSIVE RSumTo(_, _)
\* f[1] + ... + f[k] over fractions
RSumTo(f, k) == IF k = 0 THEN RatOf(0) ELSE RAdd(f[k], RSumTo(f, k - 1))

\* np.dot / @ of an integer vector with a vector of fractions
Dot(u, x) == RSumTo([j \in 1..Len(x) |-> RMulInt(u[j], x[j])], Len(x))

-----------------------------------------------------------------------------
(* Shapes *)

\* np.shape(A)[0]
NumRows(A_) == Len(A_)

\* np.shape(A)[1]
NumCols(A_) == Len(A_[1])

\* the LinearProgram invariant: A is m x n, len(b) = m, len(c) = n
WellFormed(A_, b_, c_) == Len(b_) = NumRows(A_) /\ Len(c_) = NumCols(A_)

-----------------------------------------------------------------------------
(* itertools.combinations(range(N), k): the k-tuples of increasing indices  *)
(* in lo..N-1, in the lexicographic order in which itertools yields them    *)

RECURSIVE CombosFrom(_, _, _)
CombosFrom(lo, N, k) ==
    IF k = 0 THEN << <<>> >>
    ELSE IF N - lo < k THEN << >>
    ELSE LET rest == CombosFrom(lo + 1, N, k - 1)
         IN  [i \in 1..Len(rest) |-> <<lo>> \o rest[i]] \o CombosFrom(lo + 1, N, k)

combinations(N, k) == CombosFrom(0, N, k)

\* the enumeration with the last row index left out: range(m + n - 1)
row_index_combinations_short(A_) ==
    combinations(NumRows(A_) + NumCols(A_) - 1, NumCols(A_))

\* row_index_combinations = itertools.combinations(range(m + n), n)
row_index_combinations(A_) ==
    combinations(NumRows(A_) + NumCols(A_), NumCols(A_))

-----------------------------------------------------------------------------
(* The augmented system *)

eye(n) == [i \in 1..n |-> [j \in 1..n |-> IF i = j THEN 1 ELSE 0]]

zeros(n) == [i \in 1..n |-> 0]

\* the identity stacked above A: np.vstack((np.eye(n), A))
A_stacked_eye_first(A_) == eye(NumCols(A_)) \o A_

\* A_stacked = np.vstack((A, np.eye(n)))
A_stacked(A_) == A_ \o eye(NumCols(A_))

\* b_stacked = np.hstack((b, np.zeros(n)))
b_stacked(A_, b_) == b_ \o zeros(NumCols(A_))

-----------------------------------------------------------------------------
(* np.linalg.solve on a square integer system, solved exactly (Cramer)     *)

\* M without its first row and its j-th column
Minor(M, j) ==
    [i \in 1..(Len(M) - 1) |->
        [k \in 1..(Len(M) - 1) |-> IF k < j THEN M[i + 1][k] ELSE M[i + 1][k + 1]]]

RECURSIVE Det(_)
Det(M) ==
    IF Len(M) = 1 THEN M[1][1]
    ELSE SumTo([j \in 1..Len(M) |->
                  IF M[1][j] = 0 THEN 0
                  ELSE (IF j % 2 = 1 THEN 1 ELSE -1) * M[1][j] * Det(Minor(M, j))],
               Len(M))

ReplaceCol(M, j, r) ==
    [i \in 1..Len(M) |-> [k \in 1..Len(M) |-> IF k = j THEN r[i] ELSE M[i][k]]]

\* np.linalg.solve(M, r): the unique solution, or LinAlgError when M is singular
linalg_solve(M, r) ==
    LET d == Det(M)
    IN  IF d = 0 THEN [ok |-> FALSE, x |-> << >>]
        ELSE [ok |-> TRUE,
              x  |-> [j \in 1..Len(M) |-> Rat(Det(ReplaceCol(M, j, r)), d)]]

-----------------------------------------------------------------------------
(* One pass of the for loop of get_vertices over a row combination          *)

\* x[(np.abs(x) < 1e-14)] = 0
Snap(x) ==
    [j \in 1..Len(x) |-> IF RLtTol(RAbs(x[j]), SnapTolExp) THEN RatOf(0) ELSE x[j]]

\* the candidate's sign is not tested
NonNegative_unchecked(x) == TRUE

\* np.all(x >= 0)
NonNegative(x) == \A j \in 1..Len(x) : RLeq(RatOf(0), x[j])

\* numpy broadcasting of two 1-D arrays of lengths k1 and k2
Broadcastable(k1, k2) == k1 = k2 \/ k1 = 1 \/ k2 = 1

Elem(v, i) == IF Len(v) = 1 THEN v[1] ELSE v[i]

\* the original constraints are not tested
ConstraintsHold_unchecked(A_, b_, x) == TRUE

\* np.all((A @ x) <= (b + 1e-10)), for shapes that broadcast
ConstraintsHold(A_, b_, x) ==
    LET Ax == [i \in 1..NumRows(A_) |-> Dot(A_[i], x)]
        k  == IF NumRows(A_) >= Len(b_) THEN NumRows(A_) ELSE Len(b_)
    IN  \A i \in 1..k :
            RLeqTol(RSub(Elem(Ax, i), RatOf(Elem(b_, i))), FeasTolExp)

\* A_stacked[list(row_combo), :] and b_stacked[list(row_combo)]; the index
\* into b_stacked fails when len(b) < m
IndexOK(A_, b_, row_combo) ==
    \A k \in 1..Len(row_combo) : row_combo[k] < Len(b_stacked(A_, b_))

A_constraints(A_, row_combo) ==
    [k \in 1..Len(row_combo) |-> A_stacked(A_)[row_combo[k] + 1]]

b_constraints(A_, b_, row_combo) ==
    [k \in 1..Len(row_combo) |-> b_stacked(A_, b_)[row_combo[k] + 1]]

\* Body of the for loop: what one row combination leads to.
\*   "IndexError"  raised outside the try, leaves get_vertices
\*   "LinAlgError" raised by np.linalg.solve, swallowed by the bare except
\*   "ValueError"  raised by the comparison of shapes that do not broadcast,
\*                 swallowed by the bare except
\*   "rejected"    the point fails the feasibility test
\*   "vertex"      the point is appended to feasible_vertices
Candidate(A_, b_, row_combo) ==
    IF ~IndexOK(A_, b_, row_combo) THEN [kind |-> "IndexError", x |-> << >>]
    ELSE LET s == linalg_solve(A_constraints(A_, row_combo),
                               b_constraints(A_, b_, row_combo))
         IN  IF ~s.ok THEN [kind |-> "LinAlgError", x |-> << >>]
             ELSE LET x == Snap(s.x)
                  IN  IF ~NonNegative(x) THEN [kind |-> "rejected", x |-> x]
                      ELSE IF ~Broadcastable(NumRows(A_), Len(b_))
                           THEN [kind |-> "ValueError", x |-> x]
                      ELSE IF ConstraintsHold(A_, b_, x)
                           THEN [kind |-> "vertex", x |-> x]
                      ELSE [kind |-> "rejected", x |-> x]

-----------------------------------------------------------------------------
(* LP_exhaustive_search after get_vertices has returned                     *)

NoOutcome == [kind |-> "none", val |-> RatOf(0), exc |-> "", at |-> ""]

Returned(v) == [kind |-> "value", val |-> v, exc |-> "", at |-> ""]

Raised(e, where) == [kind |-> "raise", val |-> RatOf(0), exc |-> e, at |-> where]

\* the objective without the sign flip: np.dot(c, vertex)
vertex_obj_val_unsigned(c_, vertex) == Dot(c_, vertex)

\* vertex_obj_val = np.dot(-c, vertex)
vertex_obj_val(c_, vertex) == Dot([j \in 1..Len(c_) |-> -c_[j]], vertex)

\* the objective value of the vertex found last
MinTo_last(f, k) == f[k]

RECURSIVE MinTo(_, _)
\* the least of f[1..k], k >= 1
MinTo(f, k) ==
    IF k = 1 THEN f[1]
    ELSE LET r == MinTo(f, k - 1) IN IF RLt(f[k], r) THEN f[k] ELSE r

\* lines 173-180: the objective values of the vertices and np.min of them
Objective(c_, fv) ==
    IF \E i \in 1..Len(fv) : Len(fv[i]) # Len(c_) THEN Raised("ValueError", "np.dot")
    ELSE IF Len(fv) = 0 THEN Raised("ValueError", "np.min")
    ELSE Returned(MinTo([i \in 1..Len(fv) |-> vertex_obj_val(c_, fv[i])], Len(fv)))

-----------------------------------------------------------------------------
(* The reference solver.  scipy.optimize.linprog(cost, A_ub, b_ub) is a     *)
(* library; it is modelled by its contract: minimize cost.x subject to      *)
(* A_ub x <= b_ub and the default bounds x >= 0, reporting the optimal      *)
(* value with status optimal, or status infeasible or unbounded.  The       *)
(* optimal value is computed by Fourier-Motzkin elimination: the system     *)
(*    A_ub x <= b_ub,  -x <= 0,  z - cost.x <= 0,  cost.x - z <= 0          *)
(* is projected onto z, whose least admissible value is the optimum.        *)
(* A row <<a_1, .., a_n, a_z, r>> stands for a.x + a_z z <= r.              *)

RECURSIVE GCDTo(_, _)
GCDTo(r, k) == IF k = 0 THEN 0 ELSE GCD(Abs(r[k]), GCDTo(r, k - 1))

NormRow(r) ==
    LET g == GCDTo(r, Len(r))
    IN  IF g = 0 THEN r ELSE [i \in 1..Len(r) |-> r[i] \div g]

\* the rows of S with variable k eliminated
Eliminate(S, k) ==
    LET P == {r \in S : r[k] > 0}
        N == {r \in S : r[k] < 0}
        Z == {r \in S : r[k] = 0}
    IN  Z \cup {NormRow([i \in 1..Len(pq[1]) |->
                            (-(pq[2][k])) * pq[1][i] + pq[1][k] * pq[2][i]])
                : pq \in P \X N}

RECURSIVE EliminateTo(_, _)
\* variables k, k - 1, .., 1 eliminated
EliminateTo(S, k) == IF k = 0 THEN S ELSE EliminateTo(Eliminate(S, k), k - 1)

LPSystem(cost, A_ub, b_ub) ==
    LET m == NumRows(A_ub)
        n == NumCols(A_ub)
    IN  {A_ub[i] \o <<0, b_ub[i]>> : i \in 1..m}
        \cup {[k \in 1..(n + 2) |-> IF k = j THEN -1 ELSE 0] : j \in 1..n}
        \cup {[j \in 1..n |-> -cost[j]] \o <<1, 0>>,
              [j \in 1..n |-> cost[j]] \o <<-1, 0>>}

\* the greatest fraction of a non-empty finite set
RMax(S) == CHOOSE x \in S : \A y \in S : RLeq(y, x)

\* minus infinity, written as a fraction with denominator 0
MinusInf == <<-1, 0>>

IsFinite(x) == x[2] # 0

\* fun when there is no optimum.  The contract leaves it open; the objective
\* is unbounded below (-inf), or it is the objective at the point the solver
\* stopped at, which for the starting basis x = 0 is 0.
UnspecifiedFun == {MinusInf, RatOf(0)}

\* the results linprog may return
linprog(cost, A_ub, b_ub) ==
    IF Len(b_ub) # NumRows(A_ub) \/ Len(cost) # NumCols(A_ub)
    THEN {[status |-> "ValueError", fun |-> RatOf(0)]}
    ELSE LET n == NumCols(A_ub)
             Z == EliminateTo(LPSystem(cost, A_ub, b_ub), n)
             lower == {Rat(r[n + 2], r[n + 1]) : r \in {q \in Z : q[n + 1] < 0}}
         IN  IF \E r \in Eliminate(Z, n + 1) : r[n + 2] < 0
             THEN {[status |-> "infeasible", fun |-> f] : f \in UnspecifiedFun}
             ELSE IF lower = {}
             THEN {[status |-> "unbounded", fun |-> f] : f \in UnspecifiedFun}
             ELSE {[status |-> "optimal", fun |-> RMax(lower)]}

\* the wrapper passing c as it is: scipy.optimize.linprog(c, A_ub=A, b_ub=b)
LP_simplex_plus_c(A_, b_, c_) == linprog(c_, A_, b_)

\* LP_simplex(A, b, c) = scipy.optimize.linprog(-c, A_ub=A, b_ub=b, method="simplex")
LP_simplex(A_, b_, c_) == linprog([j \in 1..Len(c_) |-> -c_[j]], A_, b_)

NoResult == [status |-> "none", fun |-> RatOf(0)]

-----------------------------------------------------------------------------
(* Inputs *)

Vectors(n, V) == [1..n -> V]

Matrices(m, n, V) == [1..m -> [1..n -> V]]

\* the well-formed problems with the given dimensions and entries
Problems(D, VA, Vb, Vc) ==
    UNION {Matrices(m, n, VA) \X Vectors(m, Vb) \X Vectors(n, Vc)
           : <<m, n>> \in D \X D}

Dims == 1..MaxDim

SmallDims == {1, 2}

\* what generate_random_LPP can return: m and n from randint(1, 12) and the
\* np.rint of draws from [0, 1) * 100, scaled down to problems of up to 2 x 2
\* with entries up to MaxVal and 0/1 problems of up to MaxDim x MaxDim
generate_random_LPP ==
    Problems(SmallDims, 0..MaxVal, {0, 1, MaxVal}, {0, 1, MaxVal})
        \cup Problems(Dims, {0, 1}, {1}, {1})

\* well-formed problems handed to the solvers directly; the right-hand sides
\* may be negative
DirectInputs ==
    Problems(SmallDims, 0..MaxVal, {-1, 0, MaxVal}, {0, 1, MaxVal})
        \cup Problems(Dims, {0, 1}, {1}, {1})

\* the scenarios of the specification
Scenarios ==
    { << <<<<1, 1>>, <<1, 0>>>>, <<4, 2>>, <<3, 2>> >>,
      << <<<<1>>>>, <<5>>, <<1>> >> }

\* well-formed problems with coefficients of both signs
SignedInputs == Problems(SmallDims, {-1, 1}, {-1, 1, 2}, {-1, 1})

\* problems whose dimensions disagree: b or c longer or shorter than A asks
Malformed ==
    UNION {Matrices(m, n, {0, 1}) \X Vectors(lb, {1, 2}) \X Vectors(lc, {1})
           : <<m, n, lb, lc>> \in
               {q \in SmallDims \X SmallDims \X {1, 2, 3} \X {1, 2, 3} :
                   q[3] # q[1] \/ q[4] # q[2]}}

Inputs == DirectInputs \cup SignedInputs \cup Scenarios \cup Malformed

-----------------------------------------------------------------------------
(* Actions *)

NoMemo ==
    [set |-> FALSE, A |-> << >>, b |-> << >>, c |-> << >>, res |-> NoOutcome,
     calls |-> 0, other |-> FALSE]

\* the comparison loop has not started
IdleHarness ==
    /\ iteration = 0
    /\ scipy_test_results = << >>
    /\ exhaustive_test_results = << >>

\* a value that is not set (None)
None == << >>

\* no program built on cvxpy has started
IdleCvx ==
    /\ nq = 0
    /\ level = 0
    /\ cell = <<0, 0>>
    /\ diagonal = << >>
    /\ G = None
    /\ with_congestion = FALSE
    /\ points = None
    /\ radius = None
    /\ comfort_levels = None
    /\ frequency_ranking = None
    /\ distances = None
    /\ C = None
    /\ constraints = << >>
    /\ X = None
    /\ W = None
    /\ ret = None

\* the two solvers have not been called
IdleLP ==
    /\ A = << >>
    /\ b = << >>
    /\ c = << >>
    /\ combos = << >>
    /\ feasible_vertices = << >>
    /\ visited = << >>
    /\ suppressed = {}
    /\ exhaustive_res = NoOutcome
    /\ scipy_res = NoResult
    /\ memo = NoMemo
    /\ solved = None

IdleOutsideLP == IdleHarness /\ IdleCvx /\ solved = None

\* line 211: scipy_res = LP_simplex(A, b, c)
Simplex ==
    /\ pc = "simplex"
    /\ \E r \in LP_simplex(A, b, c) : scipy_res' = r
    /\ pc' = "call"
    /\ UNCHANGED <<A, b, c, combos, feasible_vertices, visited, suppressed,
                   exhaustive_res, memo>>
    /\ UNCHANGED outside_lp

\* get_vertices with a list that outlives the call
Enter_keeps_vertices ==
    /\ pc = "call"
    /\ combos' = row_index_combinations(A)
    /\ visited' = << >>
    /\ suppressed' = {}
    /\ exhaustive_res' = NoOutcome
    /\ pc' = "loop"
    /\ UNCHANGED <<A, b, c, feasible_vertices, scipy_res, memo>>
    /\ UNCHANGED outside_lp

\* lines 171 and 118-130: LP_exhaustive_search calls get_vertices, which sets
\* up the iterator and the empty list
Enter ==
    /\ pc = "call"
    /\ combos' = row_index_combinations(A)
    /\ feasible_vertices' = << >>
    /\ visited' = << >>
    /\ suppressed' = {}
    /\ exhaustive_res' = NoOutcome
    /\ pc' = "loop"
    /\ UNCHANGED <<A, b, c, scipy_res, memo>>
    /\ UNCHANGED outside_lp

\* the for loop without the try: a singular subsystem leaves get_vertices
Step_singular_aborts ==
    /\ pc = "loop"
    /\ combos # << >>
    /\ \E r \in {Candidate(A, b, Head(combos))} :
           /\ combos' = Tail(combos)
           /\ visited' = Append(visited, Head(combos))
           /\ feasible_vertices' =
                 IF r.kind = "vertex" THEN Append(feasible_vertices, r.x)
                 ELSE feasible_vertices
           /\ suppressed' =
                 IF r.kind = "ValueError" THEN suppressed \cup {r.kind} ELSE suppressed
           /\ pc' = IF r.kind \in {"IndexError", "LinAlgError"} THEN "raised" ELSE "loop"
           /\ exhaustive_res' =
                 IF r.kind = "IndexError" THEN Raised("IndexError", "b_stacked")
                 ELSE IF r.kind = "LinAlgError"
                      THEN Raised("LinAlgError", "np.linalg.solve")
                 ELSE exhaustive_res
    /\ UNCHANGED <<A, b, c, scipy_res, memo>>
    /\ UNCHANGED outside_lp

\* the for loop with a solve that overwrites its right-hand side, taken from
\* a view of the caller's b: the selected entries of b receive the (truncated)
\* solution
Step_solves_in_place ==
    /\ pc = "loop"
    /\ combos # << >>
    /\ \E r \in {Candidate(A, b, Head(combos))} :
           /\ combos' = Tail(combos)
           /\ visited' = Append(visited, Head(combos))
           /\ feasible_vertices' =
                 IF r.kind = "vertex" THEN Append(feasible_vertices, r.x)
                 ELSE feasible_vertices
           /\ suppressed' =
                 IF r.kind \in {"LinAlgError", "ValueError"}
                 THEN suppressed \cup {r.kind} ELSE suppressed
           /\ pc' = IF r.kind = "IndexError" THEN "raised" ELSE "loop"
           /\ exhaustive_res' =
                 IF r.kind = "IndexError" THEN Raised("IndexError", "b_stacked")
                 ELSE exhaustive_res
           /\ b' = IF r.x = << >> THEN b
                   ELSE [i \in 1..Len(b) |->
                           IF \E k \in 1..Len(r.x) : Head(combos)[k] = i - 1
                           THEN LET k == CHOOSE k \in 1..Len(r.x) : Head(combos)[k] = i - 1
                                IN  r.x[k][1] \div r.x[k][2]
                           ELSE b[i]]
    /\ UNCHANGED <<A, c, scipy_res, memo>>
    /\ UNCHANGED outside_lp

\* the for loop keeping each point once: a point already in the list is not
\* appended again
Step_one_per_point ==
    /\ pc = "loop"
    /\ combos # << >>
    /\ \E r \in {Candidate(A, b, Head(combos))} :
           /\ combos' = Tail(combos)
           /\ visited' = Append(visited, Head(combos))
           /\ feasible_vertices' =
                 IF r.kind = "vertex"
                    /\ \A i \in 1..Len(feasible_vertices) : feasible_vertices[i] # r.x
                 THEN Append(feasible_vertices, r.x)
                 ELSE feasible_vertices
           /\ suppressed' =
                 IF r.kind \in {"LinAlgError", "ValueError"}
                 THEN suppressed \cup {r.kind} ELSE suppressed
           /\ pc' = IF r.kind = "IndexError" THEN "raised" ELSE "loop"
           /\ exhaustive_res' =
                 IF r.kind = "IndexError" THEN Raised("IndexError", "b_stacked")
                 ELSE exhaustive_res
    /\ UNCHANGED <<A, b, c, scipy_res, memo>>
    /\ UNCHANGED outside_lp

\* lines 132-154: one pass of the for loop
Step ==
    /\ pc = "loop"
    /\ combos # << >>
    /\ \E r \in {Candidate(A, b, Head(combos))} :
           /\ combos' = Tail(combos)
           /\ visited' = Append(visited, Head(combos))
           /\ feasible_vertices' =
                 IF r.kind = "vertex" THEN Append(feasible_vertices, r.x)
                 ELSE feasible_vertices
           /\ suppressed' =
                 IF r.kind \in {"LinAlgError", "ValueError"}
                 THEN suppressed \cup {r.kind} ELSE suppressed
           /\ pc' = IF r.kind = "IndexError" THEN "raised" ELSE "loop"
           /\ exhaustive_res' =
                 IF r.kind = "IndexError" THEN Raised("IndexError", "b_stacked")
                 ELSE exhaustive_res
    /\ UNCHANGED <<A, b, c, scipy_res, memo>>
    /\ UNCHANGED outside_lp

\* lines 156 and 173-180: get_vertices returns, the objective values are
\* computed and reduced with np.min
Finish ==
    /\ pc = "loop"
    /\ combos = << >>
    /\ exhaustive_res' = Objective(c, feasible_vertices)
    /\ pc' = IF exhaustive_res'.kind = "raise" THEN "raised" ELSE "done"
    /\ UNCHANGED <<A, b, c, combos, feasible_vertices, visited, suppressed,
                   scipy_res, memo>>
    /\ UNCHANGED outside_lp

Init ==
    /\ \E p \in Inputs : A = p[1] /\ b = p[2] /\ c = p[3]
    /\ pc = "simplex"
    /\ combos = << >>
    /\ feasible_vertices = << >>
    /\ visited = << >>
    /\ suppressed = {}
    /\ exhaustive_res = NoOutcome
    /\ scipy_res = NoResult
    /\ memo = NoMemo
    /\ IdleOutsideLP

Next == Simplex \/ Enter \/ Step \/ Finish

Spec == Init /\ [][Next]_vars

\* one comparison again, for the properties of the enumeration of get_vertices
NextEnumeration == Simplex \/ Enter \/ Step \/ Finish

SpecEnumeration == Init /\ [][NextEnumeration]_vars

\* the reference solver alone, on the same inputs
NextSimplex == Simplex

SpecSimplex == Init /\ [][NextSimplex]_vars

-----------------------------------------------------------------------------
(* The comparison loop, lines 206-221.  The iteration count is left out     *)
(* here: every iteration runs the same body on a fresh problem.             *)

\* line 207: A, b, c = generate_random_LPP()
Generate ==
    /\ pc = "generate"
    /\ \E p \in generate_random_LPP : A' = p[1] /\ b' = p[2] /\ c' = p[3]
    /\ pc' = "simplex"
    /\ UNCHANGED <<combos, feasible_vertices, visited, suppressed,
                   exhaustive_res, scipy_res, memo>>
    /\ UNCHANGED outside_lp

\* np.round(scipy_res.fun, 5) == np.round(exhaustive_res, 5)
AssertCondition(fun, res) ==
    IF IsFinite(fun) /\ IsFinite(res)
    THEN Round(fun, AssertDecimals) = Round(res, AssertDecimals)
    ELSE fun = res

\* line 221: the assert; when it passes the loop goes on to its next
\* iteration and the values of this one are dead
AssertEq ==
    /\ pc = "done"
    /\ IF AssertCondition(scipy_res.fun, exhaustive_res.val)
       THEN /\ pc' = "generate"
            /\ A' = << >>
            /\ b' = << >>
            /\ c' = << >>
            /\ combos' = << >>
            /\ feasible_vertices' = << >>
            /\ visited' = << >>
            /\ suppressed' = {}
            /\ exhaustive_res' = NoOutcome
            /\ scipy_res' = NoResult
       ELSE /\ pc' = "AssertionError"
            /\ UNCHANGED <<A, b, c, combos, feasible_vertices, visited, suppressed,
                           exhaustive_res, scipy_res>>
    /\ UNCHANGED memo
    /\ UNCHANGED outside_lp

InitLoop ==
    /\ A = << >>
    /\ b = << >>
    /\ c = << >>
    /\ pc = "generate"
    /\ combos = << >>
    /\ feasible_vertices = << >>
    /\ visited = << >>
    /\ suppressed = {}
    /\ exhaustive_res = NoOutcome
    /\ scipy_res = NoResult
    /\ memo = NoMemo
    /\ IdleOutsideLP

NextLoop == Generate \/ Simplex \/ Enter \/ Step \/ Finish \/ AssertEq

SpecLoop == InitLoop /\ [][NextLoop]_vars

-----------------------------------------------------------------------------
(* A sequence of calls of LP_exhaustive_search, one of which is remembered  *)
(* with its outcome; memo.calls counts the calls made since, memo.other     *)
(* tells whether one of them had other arguments.                           *)

CallInputs == Problems(SmallDims, {0, 1}, {-1, 1}, {1})

\* the caller calls LP_exhaustive_search again, with any arguments
NewCall ==
    /\ pc \in {"done", "raised"}
    /\ memo.set => memo.calls < MaxLater
    /\ \E p \in CallInputs :
          /\ A' = p[1] /\ b' = p[2] /\ c' = p[3]
          /\ memo' = IF memo.set
                     THEN [memo EXCEPT !.calls = @ + 1,
                                       !.other = @ \/ p # <<memo.A, memo.b, memo.c>>]
                     ELSE memo
    /\ pc' = "call"
    /\ UNCHANGED <<combos, feasible_vertices, visited, suppressed,
                   exhaustive_res, scipy_res>>
    /\ UNCHANGED outside_lp

\* the caller keeps the outcome of a call for a later comparison
Remember ==
    /\ pc \in {"done", "raised"}
    /\ ~memo.set
    /\ memo' = [set |-> TRUE, A |-> A, b |-> b, c |-> c, res |-> exhaustive_res,
                calls |-> 0, other |-> FALSE]
    /\ UNCHANGED <<A, b, c, pc, combos, feasible_vertices, visited, suppressed,
                   exhaustive_res, scipy_res>>
    /\ UNCHANGED outside_lp

InitCalls ==
    /\ \E p \in CallInputs : A = p[1] /\ b = p[2] /\ c = p[3]
    /\ pc = "call"
    /\ combos = << >>
    /\ feasible_vertices = << >>
    /\ visited = << >>
    /\ suppressed = {}
    /\ exhaustive_res = NoOutcome
    /\ scipy_res = NoResult
    /\ memo = NoMemo
    /\ IdleOutsideLP

NextCalls == Enter \/ Step \/ Finish \/ NewCall \/ Remember

SpecCalls == InitCalls /\ [][NextCalls]_vars

-----------------------------------------------------------------------------
(* The two solvers as functions of their arguments                          *)

RECURSIVE Collect(_, _, _)
\* the points the feasibility filter admits among the combinations cs, in order
Collect(A_, b_, cs) ==
    IF cs = << >> THEN << >>
    ELSE LET r == Candidate(A_, b_, Head(cs))
         IN  (IF r.kind = "vertex" THEN <<r.x>> ELSE << >>) \o Collect(A_, b_, Tail(cs))

\* get_vertices(A, b): the list it returns, or the IndexError of line 135
get_vertices(A_, b_) ==
    IF \E k \in 1..Len(row_index_combinations(A_)) :
           ~IndexOK(A_, b_, row_index_combinations(A_)[k])
    THEN [ok |-> FALSE, list |-> << >>]
    ELSE [ok |-> TRUE, list |-> Collect(A_, b_, row_index_combinations(A_))]

\* LP_exhaustive_search(A, b, c): its outcome
LP_exhaustive_search(A_, b_, c_) ==
    LET g == get_vertices(A_, b_)
    IN  IF g.ok THEN Objective(c_, g.list) ELSE Raised("IndexError", "b_stacked")

-----------------------------------------------------------------------------
(* Lines 143-152 with the rounding error of np.linalg.solve.  A coordinate  *)
(* of the array x is a record: exact is the exact solution (a fraction)     *)
(* and noise is the error of the floating-point solve, a whole number of    *)
(* units of 10^-NoiseExp; the value is exact + noise * 10^-NoiseExp.  The   *)
(* error the solve makes is not specified: any of NoiseUnits.  The exact    *)
(* parts have denominators below 2^31, so one that is not 0 is at least     *)
(* 4e-10 in absolute value, far above both the noise and 1e-14.             *)

\* the unit of the rounding error, as a negative power of ten
NoiseExp == 15

\* the rounding errors of one coordinate, in units of 10^-NoiseExp
NoiseUnits == {-20, -10, -9, -1, 0, 1, 9, 10, 20}

Float(r, k) == [exact |-> r, noise |-> k]

\* np.abs(x) < 10^-e for one coordinate, e <= NoiseExp
FloatAbsBelow(f, e) ==
    /\ f.exact = RatOf(0)
    /\ Abs(f.noise) < Pow10(NoiseExp - e)

\* the snap with the bound included: np.abs(x) <= 1e-14
SnapFloat_inclusive(x) ==
    [j \in 1..Len(x) |->
        IF x[j].exact = RatOf(0) /\ Abs(x[j].noise) <= Pow10(NoiseExp - SnapTolExp) THEN Float(RatOf(0), 0) ELSE x[j]]

\* line 146: x[(np.abs(x) < 1e-14)] = 0
SnapFloat(x) ==
    [j \in 1..Len(x) |->
        IF FloatAbsBelow(x[j], SnapTolExp) THEN Float(RatOf(0), 0) ELSE x[j]]

\* line 151: np.all(x >= 0)
NonNegativeFloat(x) ==
    \A j \in 1..Len(x) :
        IF x[j].exact = RatOf(0) THEN x[j].noise >= 0 ELSE RLt(RatOf(0), x[j].exact)

\* line 151: np.all((A @ x) <= (b + 1e-10)).  The noise of A @ x stays below
\* 1e-10 and the exact part of (A @ x) - b is 0 or at least 4e-10 away from
\* it, so the test is decided by the exact parts.
ConstraintsHoldFloat(A_, b_, x) ==
    ConstraintsHold(A_, b_, [j \in 1..Len(x) |-> x[j].exact])

\* the problems whose candidates are studied
SnapProblems == Problems(SmallDims, {0, 1}, {1}, {1})

SnapFrame ==
    UNCHANGED <<A, b, c, combos, exhaustive_res, scipy_res, memo, harness, cvx>>

\* line 143: x = np.linalg.solve(A_constraints[:, :n], b_constraints), exact
\* up to the rounding error; LinAlgError is caught at lines 153-154
FS_Solve ==
    /\ pc = "fs_solve"
    /\ visited' = Append(visited, Head(combos))
    /\ \E s \in {linalg_solve(A_constraints(A, Head(combos)),
                              b_constraints(A, b, Head(combos)))} :
         IF s.ok
         THEN /\ \E noise \in [1..Len(s.x) -> NoiseUnits] :
                   solved' = [returned |-> [j \in 1..Len(s.x) |-> Float(s.x[j], noise[j])],
                              x |-> [j \in 1..Len(s.x) |-> Float(s.x[j], noise[j])]]
              /\ pc' = "fs_snap"
              /\ UNCHANGED suppressed
         ELSE /\ suppressed' = suppressed \cup {"LinAlgError"}
              /\ pc' = "fs_next"
              /\ UNCHANGED solved
    /\ UNCHANGED feasible_vertices
    /\ SnapFrame

\* line 146: the small values of x are set to 0, in place; solved.returned
\* keeps what the solve returned
FS_Snap ==
    /\ pc = "fs_snap"
    /\ solved' = [solved EXCEPT !.x = SnapFloat(solved.x)]
    /\ pc' = "fs_test"
    /\ UNCHANGED <<feasible_vertices, visited, suppressed>>
    /\ SnapFrame

\* lines 151-152: the feasibility test and the append
FS_Test ==
    /\ pc = "fs_test"
    /\ feasible_vertices' =
          IF NonNegativeFloat(solved.x) /\ ConstraintsHoldFloat(A, b, solved.x)
          THEN Append(feasible_vertices, solved.x)
          ELSE feasible_vertices
    /\ pc' = "fs_next"
    /\ UNCHANGED <<solved, visited, suppressed>>
    /\ SnapFrame

\* one pass of the for loop of get_vertices on one row combination
InitSnap ==
    /\ \E p \in SnapProblems :
          /\ A = p[1] /\ b = p[2] /\ c = p[3]
          /\ \E k \in 1..Len(row_index_combinations(p[1])) :
                combos = <<row_index_combinations(p[1])[k]>>
    /\ pc = "fs_solve"
    /\ feasible_vertices = << >>
    /\ visited = << >>
    /\ suppressed = {}
    /\ exhaustive_res = NoOutcome
    /\ scipy_res = NoResult
    /\ memo = NoMemo
    /\ solved = None
    /\ IdleHarness
    /\ IdleCvx

NextSnap == FS_Solve \/ FS_Snap \/ FS_Test

SpecSnap == InitSnap /\ [][NextSnap]_vars

-----------------------------------------------------------------------------
(* The comparison loop with its bookkeeping, lines 201-221.  A pass of the  *)
(* loop is one step here; the problems are the 1 x 1 problems of the        *)
(* generator, and the durations of the (m + n, duration) pairs are left     *)
(* out.                                                                     *)

\* line 201
num_iterations == 150

\* line 206: the first argument of range
RangeStart == 1

\* range(1, num_iterations)
LoopRange == RangeStart..(num_iterations - 1)

HarnessPool ==
    {p \in generate_random_LPP : NumRows(p[1]) = 1 /\ NumCols(p[1]) = 1}

\* lines 207-221: one pass of the for loop.  An exception of the exhaustive
\* search or a failed assert ends the loop.
Iteration ==
    /\ pc = "harness"
    /\ iteration < Cardinality(LoopRange)
    /\ iteration' = iteration + 1
    /\ \E p \in HarnessPool :
         \E r \in LP_simplex(p[1], p[2], p[3]) :
           \E e \in {LP_exhaustive_search(p[1], p[2], p[3])} :
              /\ A' = p[1] /\ b' = p[2] /\ c' = p[3]
              /\ scipy_res' = r
              /\ scipy_test_results' =
                    Append(scipy_test_results, NumRows(p[1]) + NumCols(p[1]))
              /\ exhaustive_res' = e
              /\ exhaustive_test_results' =
                    IF e.kind = "raise" THEN exhaustive_test_results
                    ELSE Append(exhaustive_test_results,
                                NumRows(p[1]) + NumCols(p[1]))
              /\ pc' = IF e.kind = "raise" THEN "raised"
                       ELSE IF AssertCondition(r.fun, e.val) THEN "harness"
                       ELSE "AssertionError"
    /\ UNCHANGED <<combos, feasible_vertices, visited, suppressed, memo, solved, cvx>>

\* the range is exhausted
LoopEnd ==
    /\ pc = "harness"
    /\ iteration = Cardinality(LoopRange)
    /\ pc' = "end"
    /\ UNCHANGED <<A, b, c, combos, feasible_vertices, visited, suppressed,
                   exhaustive_res, scipy_res, memo, solved, harness, cvx>>

\* lines 201-204
InitHarness ==
    /\ A = << >>
    /\ b = << >>
    /\ c = << >>
    /\ pc = "harness"
    /\ combos = << >>
    /\ feasible_vertices = << >>
    /\ visited = << >>
    /\ suppressed = {}
    /\ exhaustive_res = NoOutcome
    /\ scipy_res = NoResult
    /\ memo = NoMemo
    /\ solved = None
    /\ IdleHarness
    /\ IdleCvx

NextHarness == Iteration \/ LoopEnd

SpecHarness == InitHarness /\ [][NextHarness]_vars

-----------------------------------------------------------------------------
(* generate_random_LPP over its whole range, lines 91-100.  A draw of       *)
(* np.random.rand is a fraction u with 0 <= u < 1; here one draw fills each *)
(* of A, b and c.                                                           *)

\* randint(1, 12) of the random module: both ends included
RandintLow == 1

RandintHigh == 12

\* the factor of lines 96-98
RintScale == 100

\* draws of np.random.rand: 0, the half-way cases 0.005, 0.015 and 0.995, and
\* 1/4, 1/2
Draws == {<<0, 1>>, <<1, 200>>, <<3, 200>>, <<1, 4>>, <<1, 2>>, <<199, 200>>}

\* a draw from [-1, 1) in place of [0, 1)
rint_rand_signed(u) == Round(RMulInt(RintScale, RSub(RAdd(u, u), RatOf(1))), 0)

\* np.rint(np.random.rand(..) * 100) for the draw u
rint_rand(u) == Round(RMulInt(RintScale, u), 0)

\* lines 91-100
GenerateFull ==
    /\ pc = "generate"
    /\ \E m \in RandintLow..RandintHigh, n \in RandintLow..RandintHigh :
         \E uA \in Draws, ub \in Draws, uc \in Draws :
            /\ A' = [i \in 1..m |-> [j \in 1..n |-> rint_rand(uA)]]
            /\ b' = [i \in 1..m |-> rint_rand(ub)]
            /\ c' = [j \in 1..n |-> rint_rand(uc)]
    /\ pc' = "generated"
    /\ UNCHANGED <<combos, feasible_vertices, visited, suppressed,
                   exhaustive_res, scipy_res, memo>>
    /\ UNCHANGED outside_lp

SpecGenerate == InitLoop /\ [][GenerateFull]_vars

-----------------------------------------------------------------------------
(* Integer programs handed to cvxpy.  A constraint is a record: op names    *)
(* its form and cells lists the entries <<i, j>> of X it reads, with the    *)
(* 0-based indices of the source.  problem.solve() is a library call; it    *)
(* is modelled by its contract: it leaves an optimal solution in X.value    *)
(* (any one of them), or None when there is none.                           *)

\* the values tried for an entry of an integer variable
Entries == -1..2

RECURSIVE CellSum(_, _)
\* cp.sum over the listed entries of X
CellSum(Xv, cells) ==
    IF cells = << >> THEN 0
    ELSE Xv[Head(cells)[1]][Head(cells)[2]] + CellSum(Xv, Tail(cells))

\* the constraint con holds of the values Xv, Wv
Holds(con, Xv, Wv) ==
    CASE con.op = "X>=0" ->
            \A i \in DOMAIN Xv : \A j \in DOMAIN Xv[i] : Xv[i][j] >= 0
      [] con.op = "W>=0" -> \A j \in DOMAIN Wv : Wv[j] >= 0
      [] con.op = "sum<=1" -> CellSum(Xv, con.cells) <= 1
      [] con.op = "sum==1" -> CellSum(Xv, con.cells) = 1
      [] con.op = "X<=W" ->
            Xv[con.cells[1][1]][con.cells[1][2]] <= Wv[con.cells[1][2]]

\* con reads row i of X only
InRow(con, i) ==
    \/ con.op = "X>=0"
    \/ /\ con.op \in {"sum<=1", "sum==1"}
       /\ \A k \in 1..Len(con.cells) : con.cells[k][1] = i

\* the rows that satisfy the constraints reading row i only
RowCandidates(cons, i, ncols) ==
    {q : q \in
        {r \in [0..(ncols - 1) -> Entries] :
            \A k \in 1..Len(cons) :
                InRow(cons[k], i) => Holds(cons[k], [ii \in {i} |-> r], << >>)}}

\* the row candidates of every row
AllRowCandidates(cons, nrows, ncols) ==
    [i \in 0..(nrows - 1) |-> RowCandidates(cons, i, ncols)]

\* the constraints on X that read more than one row
AcrossRows(cons, nrows) ==
    SelectSeq(cons, LAMBDA con :
        /\ con.op \in {"sum<=1", "sum==1"}
        /\ \A i \in 0..(nrows - 1) : ~InRow(con, i))

\* the integer matrices X, with rows among the candidates rows, that satisfy
\* the constraints across (those that read more than one row)
FeasibleX(across, nrows, rows) ==
    {Yv : Yv \in
        {Xv \in [0..(nrows - 1) -> UNION {rows[i] : i \in 0..(nrows - 1)}] :
            /\ \A i \in 0..(nrows - 1) : Xv[i] \in rows[i]
            /\ \A k \in 1..Len(across) : Holds(across[k], Xv, << >>)}}

\* the greatest element of a non-empty finite set of integers
Max(S) == CHOOSE x \in S : \A y \in S : y <= x

\* the least element of a non-empty finite set of integers
Min(S) == CHOOSE x \in S : \A y \in S : x <= y

RECURSIVE TotalTo(_, _)
\* f[0] + ... + f[k - 1]
TotalTo(f, k) == IF k = 0 THEN 0 ELSE f[k - 1] + TotalTo(f, k - 1)

\* cp.sum(X)
SumX(Xv, nrows, ncols) ==
    TotalTo([i \in 0..(nrows - 1) |-> TotalTo(Xv[i], ncols)], nrows)

-----------------------------------------------------------------------------
(* ip_nqueens, part_002 lines 388-435 *)

MaxBoard == 5

QueensFrame == UNCHANGED <<lp_data, harness, graph_in, chebyshev_in, keyboard_in, W>>

\* the next position of `for i in range(n): for j in range(n)`
NextCell(size, ij) ==
    IF ij[2] + 1 < size THEN <<ij[1], ij[2] + 1>> ELSE <<ij[1] + 1, 0>>

\* lines 390-406: the variable, the objective, X >= 0 and the rook constraints
NQ_Rooks ==
    /\ pc = "nq_call"
    /\ constraints' =
          <<[op |-> "X>=0", cells |-> << >>]>>
          \o [i \in 1..nq |->
                 [op |-> "sum<=1", cells |-> [j \in 1..nq |-> <<i - 1, j - 1>>]]]
          \o [j \in 1..nq |->
                 [op |-> "sum<=1", cells |-> [i \in 1..nq |-> <<i - 1, j - 1>>]]]
    /\ level' = 1
    /\ pc' = "nq_anti"
    /\ UNCHANGED <<nq, cell, diagonal, X, ret>>
    /\ QueensFrame

\* lines 411-412: for k in range(1, 2 * n - 3): diagonal = []
NQ_AntiDiagonal ==
    /\ pc = "nq_anti"
    /\ IF level < 2 * nq - 3
       THEN /\ diagonal' = << >>
            /\ cell' = <<0, 0>>
            /\ pc' = "nq_anti_cells"
            /\ UNCHANGED level
       ELSE /\ level' = -1 * (nq - 2)
            /\ pc' = "nq_diag"
            /\ UNCHANGED <<cell, diagonal>>
    /\ UNCHANGED <<nq, constraints, X, ret>>
    /\ QueensFrame

\* lines 413-418: the two inner loops and the append of the constraint
NQ_AntiCell ==
    /\ pc = "nq_anti_cells"
    /\ IF cell[1] < nq
       THEN /\ diagonal' = IF cell[1] + cell[2] = level
                           THEN Append(diagonal, cell) ELSE diagonal
            /\ cell' = NextCell(nq, cell)
            /\ UNCHANGED <<constraints, level, pc>>
       ELSE /\ constraints' =
                  Append(constraints, [op |-> "sum<=1", cells |-> diagonal])
            /\ level' = level + 1
            /\ pc' = "nq_anti"
            /\ UNCHANGED <<cell, diagonal>>
    /\ UNCHANGED <<nq, X, ret>>
    /\ QueensFrame

\* lines 422-423: for l in range(-1 * (n - 2), n - 2): diagonal = []
NQ_Diagonal ==
    /\ pc = "nq_diag"
    /\ IF level < nq - 2
       THEN /\ diagonal' = << >>
            /\ cell' = <<0, 0>>
            /\ pc' = "nq_diag_cells"
       ELSE /\ pc' = "nq_solve"
            /\ UNCHANGED <<cell, diagonal>>
    /\ UNCHANGED <<nq, level, constraints, X, ret>>
    /\ QueensFrame

\* lines 424-429: the two inner loops and the append of the constraint
NQ_DiagCell ==
    /\ pc = "nq_diag_cells"
    /\ IF cell[1] < nq
       THEN /\ diagonal' = IF cell[1] - cell[2] = level
                           THEN Append(diagonal, cell) ELSE diagonal
            /\ cell' = NextCell(nq, cell)
            /\ UNCHANGED <<constraints, level, pc>>
       ELSE /\ constraints' =
                  Append(constraints, [op |-> "sum<=1", cells |-> diagonal])
            /\ level' = level + 1
            /\ pc' = "nq_diag"
            /\ UNCHANGED <<cell, diagonal>>
    /\ UNCHANGED <<nq, X, ret>>
    /\ QueensFrame

\* lines 432-433: problem.solve() of Maximize(cp.sum(X))
NQ_Solve ==
    /\ pc = "nq_solve"
    /\ \E rows \in {AllRowCandidates(constraints, nq, nq)} :
         \E F \in {FeasibleX(AcrossRows(constraints, nq), nq, rows)} :
           \E sums \in {{SumX(Y, nq, nq) : Y \in F}} :
             \E best \in {Max(sums)} :
               \E Xv \in F :
                  /\ SumX(Xv, nq, nq) = best
                  /\ X' = Xv
    /\ pc' = "nq_solved"
    /\ UNCHANGED <<nq, level, cell, diagonal, constraints, ret>>
    /\ QueensFrame

\* the decimals kept by np.round(X.value, 3)
PlacementDecimals == 3

\* line 435: return np.round(X.value, 3), each entry in units of 10^-3
NQ_Return ==
    /\ pc = "nq_solved"
    /\ ret' = [i \in 0..(nq - 1) |->
                [j \in 0..(nq - 1) |-> Round(RatOf(X[i][j]), PlacementDecimals)]]
    /\ pc' = "nq_done"
    /\ UNCHANGED <<nq, level, cell, diagonal, constraints, X>>
    /\ QueensFrame

InitQueens ==
    /\ nq \in 1..MaxBoard
    /\ pc = "nq_call"
    /\ level = 0
    /\ cell = <<0, 0>>
    /\ diagonal = << >>
    /\ G = None
    /\ with_congestion = FALSE
    /\ points = None
    /\ radius = None
    /\ comfort_levels = None
    /\ frequency_ranking = None
    /\ distances = None
    /\ C = None
    /\ constraints = << >>
    /\ X = None
    /\ W = None
    /\ ret = None
    /\ IdleLP
    /\ IdleHarness

NextQueens ==
    \/ NQ_Rooks
    \/ NQ_AntiDiagonal
    \/ NQ_AntiCell
    \/ NQ_Diagonal
    \/ NQ_DiagCell
    \/ NQ_Solve
    \/ NQ_Return

SpecQueens == InitQueens /\ [][NextQueens]_vars

-----------------------------------------------------------------------------
(* min_cost_network_flow, part_001 lines 161-214 *)

\* the cvxpy programs not running, piece by piece
IdleQueens ==
    /\ nq = 0
    /\ level = 0
    /\ cell = <<0, 0>>
    /\ diagonal = << >>

IdleGraph ==
    /\ G = None
    /\ with_congestion = FALSE

IdleChebyshev ==
    /\ points = None
    /\ radius = None

IdleKeyboard ==
    /\ comfort_levels = None
    /\ frequency_ranking = None
    /\ distances = None
    /\ C = None

IdleCvxState ==
    /\ constraints = << >>
    /\ X = None
    /\ W = None
    /\ ret = None

\* the weighted edges (u, v, weight) a graph is drawn from, in the order of
\* G.edges: three routes of equal cost from node 0 to node 3
EdgePool == <<<<0, 1, 1>>, <<0, 2, 1>>, <<0, 3, 2>>, <<1, 3, 1>>, <<2, 3, 1>>>>

\* the demand attributes of the nodes 0..3; the last does not sum to zero and
\* the one before has its supply at a node with no outgoing edge
DemandPool ==
    {<<-1, 0, 0, 1>>, <<-1, 1, 0, 0>>, <<-1, 0, 1, 0>>, <<0, 0, 0, 0>>,
     <<1, 0, 0, -1>>, <<-1, 0, 0, 0>>}

RECURSIVE Keep(_, _)
\* the entries of the sequence s whose index is in S, in order
Keep(s, S) ==
    IF s = << >> THEN << >>
    ELSE Keep(SubSeq(s, 1, Len(s) - 1), S)
         \o (IF Len(s) \in S THEN <<s[Len(s)]>> ELSE << >>)

\* the directed graphs with demands and weights the function is applied to
FlowGraphs ==
    {[demand |-> d, edges |-> Keep(EdgePool, S)] :
        d \in DemandPool, S \in SUBSET (1..Len(EdgePool))}

\* line 179: C, the weight of each edge
Weights(G_) == [e \in 1..Len(G_.edges) |-> G_.edges[e][3]]

\* line 185: nx.incidence_matrix(G, oriented=True): row per node, column per
\* edge, -1 at the tail of the edge and +1 at its head
incidence_matrix(G_) ==
    [k \in 1..Len(G_.demand) |->
        [e \in 1..Len(G_.edges) |->
            IF G_.edges[e][1] = k - 1 THEN -1
            ELSE IF G_.edges[e][2] = k - 1 THEN 1 ELSE 0]]

\* X.value is enumerated in multiples of 1 / FlowUnit, between 0 and the
\* total supply 1
FlowUnit == 6

\* lines 194-199 on a vector k of numerators: X >= 0 and A @ X <= b
FlowFeasible(cons, k) ==
    \A i \in 1..Len(cons) :
        CASE cons[i].op = "X>=0" -> \A e \in 1..Len(k) : k[e] >= 0
          [] cons[i].op = "AX<=b" ->
                \A r \in 1..Len(cons[i].A) :
                    SumTo([e \in 1..Len(k) |-> cons[i].A[r][e] * k[e]], Len(k))
                        <= FlowUnit * cons[i].b[r]

\* the feasible vectors of numerators
FlowFeasibleSet(cons, ne) ==
    {y : y \in {k \in [1..ne -> 0..FlowUnit] : FlowFeasible(cons, k)}}

\* lines 187-190: the gradient at k of the objective, C or 2 * C * X
\* (times FlowUnit)
FlowGradient(C_, congestion, k) ==
    [e \in 1..Len(k) |-> IF congestion THEN 2 * C_[e] * k[e] ELSE FlowUnit * C_[e]]

\* problem.solve(): the objective is convex, so k is optimal exactly when no
\* feasible y lies in a descent direction
FlowOptimal(C_, congestion, F, k) ==
    LET g == FlowGradient(C_, congestion, k)
    IN  \A y \in F : SumTo([e \in 1..Len(k) |-> g[e] * (y[e] - k[e])], Len(k)) >= 0

\* the decimals kept by np.round(X.value, 4)
FlowDecimals == 4

\* a rounding to whole units of flow, in units of 10^-4
flow_round_to_unit(x) == Round(x, 0) * Pow10(FlowDecimals)

\* line 207: np.round(.., 4) of one flow, in units of 10^-4
flow_round(x) == Round(x, FlowDecimals)

FlowFrame == UNCHANGED <<lp_data, harness, queens_in, chebyshev_in, keyboard_in, W>>

\* lines 172-183: the arrays of the graph and the assert on the demands
MCF_Assert ==
    /\ pc = "mcf_call"
    /\ pc' = IF SumTo(G.demand, Len(G.demand)) = 0
             THEN "mcf_build" ELSE "AssertionError"
    /\ UNCHANGED <<graph_in, constraints, X, ret>>
    /\ FlowFrame

\* lines 185-199: the incidence matrix, the objective and the constraints
MCF_Build ==
    /\ pc = "mcf_build"
    /\ constraints' =
          <<[op |-> "X>=0"],
            [op |-> "AX<=b", A |-> incidence_matrix(G), b |-> G.demand]>>
    /\ pc' = "mcf_solve"
    /\ UNCHANGED <<graph_in, X, ret>>
    /\ FlowFrame

\* lines 201-202: problem.solve() leaves an optimal solution in X.value, or
\* None when the problem is infeasible
MCF_Solve ==
    /\ pc = "mcf_solve"
    /\ \E F \in {FlowFeasibleSet(constraints, Len(G.edges))} :
         IF F = {}
         THEN /\ X' = None
              /\ pc' = "mcf_infeasible"
         ELSE /\ \E k \in F :
                   /\ FlowOptimal(Weights(G), with_congestion, F, k)
                   /\ X' = [e \in 1..Len(k) |-> Rat(k[e], FlowUnit)]
              /\ pc' = "mcf_optimal"
    /\ UNCHANGED <<graph_in, constraints, ret>>
    /\ FlowFrame

\* problem.value: the objective of lines 187-190 at x, cp.sum(C @ X) or
\* cp.sum(C @ cp.square(X))
ObjectiveValue(C_, congestion, x) ==
    RSumTo([e \in 1..Len(x) |->
              IF congestion THEN Rat(C_[e] * x[e][1] * x[e][1], x[e][2] * x[e][2])
              ELSE RMulInt(C_[e], x[e])], Len(x))

\* the return with problem.value as the cost
MCF_Return_objective_value ==
    /\ pc = "mcf_optimal"
    /\ ret' = [flow_dict |-> [e \in 1..Len(X) |-> flow_round(X[e])],
               cost |-> ObjectiveValue(Weights(G), with_congestion, X)]
    /\ pc' = "mcf_done"
    /\ UNCHANGED <<graph_in, constraints, X>>
    /\ FlowFrame

\* lines 204-214: the rounded flow of each edge and the linear cost
MCF_Return ==
    /\ pc = "mcf_optimal"
    /\ ret' = [flow_dict |-> [e \in 1..Len(X) |-> flow_round(X[e])],
               cost |-> Dot(Weights(G), X)]
    /\ pc' = "mcf_done"
    /\ UNCHANGED <<graph_in, constraints, X>>
    /\ FlowFrame

\* line 212 when the problem is infeasible: C @ X.value with X.value None
MCF_Raise ==
    /\ pc = "mcf_infeasible"
    /\ pc' = "TypeError"
    /\ UNCHANGED <<graph_in, constraints, X, ret>>
    /\ FlowFrame

InitFlow ==
    /\ G \in FlowGraphs
    /\ with_congestion \in BOOLEAN
    /\ pc = "mcf_call"
    /\ IdleQueens
    /\ IdleChebyshev
    /\ IdleKeyboard
    /\ IdleCvxState
    /\ IdleLP
    /\ IdleHarness

NextFlow ==
    \/ MCF_Assert
    \/ MCF_Build
    \/ MCF_Solve
    \/ MCF_Return
    \/ MCF_Raise

SpecFlow == InitFlow /\ [][NextFlow]_vars

-----------------------------------------------------------------------------
(* graph_coloring, part_000 lines 133-182 *)

MaxVertices == 3

RECURSIVE PairsFrom(_, _, _)
\* the pairs (u, v) with u <= v < n from (u, v) on, in order
PairsFrom(u, v, n) ==
    IF u >= n THEN << >>
    ELSE IF v >= n THEN PairsFrom(u + 1, u + 1, n)
    ELSE <<<<u, v>>>> \o PairsFrom(u, v + 1, n)

\* the undirected graphs on the nodes 0..n-1, self-loops included
ColoringGraphs ==
    UNION {{[nodes |-> n, edges |-> Keep(PairsFrom(0, 0, n), S)] :
                S \in SUBSET (1..Len(PairsFrom(0, 0, n)))} : n \in 1..MaxVertices}

RECURSIVE EdgeConstraints_first_color(_, _)
\* edge constraints for the color 0 only
EdgeConstraints_first_color(edges, num_colors) ==
    IF edges = << >> THEN << >>
    ELSE <<[op |-> "sum<=1",
            cells |-> <<<<Head(edges)[1], 0>>, <<Head(edges)[2], 0>>>>]>>
         \o EdgeConstraints_first_color(Tail(edges), num_colors)

RECURSIVE EdgeConstraints(_, _)
\* lines 167-172: for edge in edges: for j in range(num_colors):
\* X[vertex_1, j] + X[vertex_2, j] <= 1
EdgeConstraints(edges, num_colors) ==
    IF edges = << >> THEN << >>
    ELSE [jj \in 1..num_colors |->
            [op |-> "sum<=1",
             cells |-> <<<<Head(edges)[1], jj - 1>>, <<Head(edges)[2], jj - 1>>>>]]
         \o EdgeConstraints(Tail(edges), num_colors)

\* the link for the vertex 0 only: [X[0,j] <= W[j] for j in range(num_colors)]
LinkConstraints_first_vertex(num_vertices, num_colors) ==
    [k \in 1..num_colors |-> [op |-> "X<=W", cells |-> <<<<0, k - 1>>>>]]

\* line 175: [X[i,j] <= W[j] for i in range(num_vertices) for j in range(num_colors)]
LinkConstraints(num_vertices, num_colors) ==
    [k \in 1..(num_vertices * num_colors) |->
        [op |-> "X<=W",
         cells |-> <<<<(k - 1) \div num_colors, (k - 1) % num_colors>>>>]]

\* the values of W[j] that satisfy the constraints on W, X.value being Xv
WCandidates(cons, Xv, j) ==
    {w \in Entries :
        \A k \in 1..Len(cons) :
            CASE cons[k].op = "W>=0" -> w >= 0
              [] cons[k].op = "X<=W" ->
                    cons[k].cells[1][2] = j =>
                        Xv[cons[k].cells[1][1]][j] <= w
              [] OTHER -> TRUE}

\* the W of least cp.sum(W) for X.value = Xv: the objective is a sum over the
\* colors and every constraint on W reads one W[j], so each W[j] is least
BestW(cons, Xv, num_colors) ==
    [j \in 0..(num_colors - 1) |-> Min(WCandidates(cons, Xv, j))]

ColoringFrame == UNCHANGED <<lp_data, harness, queens_in, chebyshev_in, keyboard_in>>

\* lines 144-164: variables, objective, X >= 0, W >= 0 and one color per vertex
GC_Build ==
    /\ pc = "gc_call"
    /\ constraints' =
          <<[op |-> "X>=0", cells |-> << >>], [op |-> "W>=0", cells |-> << >>]>>
          \o [i \in 1..G.nodes |->
                 [op |-> "sum==1",
                  cells |-> [j \in 1..G.nodes |-> <<i - 1, j - 1>>]]]
    /\ pc' = "gc_edges"
    /\ UNCHANGED <<graph_in, X, W, ret>>
    /\ ColoringFrame

\* lines 167-172: the constraints of the edges
GC_Edges ==
    /\ pc = "gc_edges"
    /\ constraints' = constraints \o EdgeConstraints(G.edges, G.nodes)
    /\ pc' = "gc_link"
    /\ UNCHANGED <<graph_in, X, W, ret>>
    /\ ColoringFrame

\* line 175: a color in use is counted
GC_Link ==
    /\ pc = "gc_link"
    /\ constraints' = constraints \o LinkConstraints(G.nodes, G.nodes)
    /\ pc' = "gc_solve"
    /\ UNCHANGED <<graph_in, X, W, ret>>
    /\ ColoringFrame

\* lines 177-178: problem.solve() of Minimize(cp.sum(W)) leaves an optimal
\* solution in X.value and W.value, or None when the problem is infeasible
GC_Solve ==
    /\ pc = "gc_solve"
    /\ \E rows \in {AllRowCandidates(constraints, G.nodes, G.nodes)} :
         \E F \in {FeasibleX(AcrossRows(constraints, G.nodes), G.nodes, rows)} :
           IF F = {}
           THEN /\ X' = None
                /\ W' = None
                /\ pc' = "gc_infeasible"
           ELSE /\ \E cost \in {[Yv \in F |->
                                   TotalTo(BestW(constraints, Yv, G.nodes), G.nodes)]} :
                     \E best \in {Min({cost[Yv] : Yv \in F})} :
                       \E Xv \in F :
                         /\ cost[Xv] = best
                         /\ X' = Xv
                         /\ W' = BestW(constraints, Xv, G.nodes)
                /\ pc' = "gc_optimal"
    /\ UNCHANGED <<graph_in, constraints, ret>>
    /\ ColoringFrame

\* line 182: return X.value
GC_Return ==
    /\ pc \in {"gc_optimal", "gc_infeasible"}
    /\ ret' = X
    /\ pc' = IF pc = "gc_optimal" THEN "gc_done" ELSE "gc_none"
    /\ UNCHANGED <<graph_in, constraints, X, W>>
    /\ ColoringFrame

InitColoring ==
    /\ G \in ColoringGraphs
    /\ with_congestion = FALSE
    /\ pc = "gc_call"
    /\ IdleQueens
    /\ IdleChebyshev
    /\ IdleKeyboard
    /\ IdleCvxState
    /\ IdleLP
    /\ IdleHarness

NextColoring ==
    \/ GC_Build
    \/ GC_Edges
    \/ GC_Link
    \/ GC_Solve
    \/ GC_Return

SpecColoring == InitColoring /\ [][NextColoring]_vars

-----------------------------------------------------------------------------
(* The keyboard number row, Keyboard_num_row_optimization.qmd lines 44-107 *)

\* the number of positions and of numbers (10 in the source)
NumKeys == 3

\* the orderings of the set S as sequences
Orderings(S) ==
    {f \in [1..Cardinality(S) -> S] : \A i, j \in 1..Cardinality(S) : f[i] = f[j] => i = j}

\* line 65: C = np.outer(comfort_levels, frequency_ranking), 0-based
CostOuter(comfort, frequency) ==
    [i \in 0..(Len(comfort) - 1) |->
        [j \in 0..(Len(frequency) - 1) |-> RMulInt(comfort[i + 1], frequency[j + 1])]]

\* line 74: cp.sum(cp.multiply(C, X))
KeyboardCost(C_, Xv) ==
    RSumTo([k \in 1..(NumKeys * NumKeys) |->
              RMulInt(Xv[(k - 1) \div NumKeys][(k - 1) % NumKeys],
                      C_[(k - 1) \div NumKeys][(k - 1) % NumKeys])],
           NumKeys * NumKeys)

\* no constraint on the sign of X
constraint1_none == << >>

\* line 93: constraint1 = [X >= 0]
constraint1 == <<[op |-> "X>=0", cells |-> << >>]>>

\* line 94: constraint2 = [cp.sum(X[i,:]) == 1 for i in range(10)]
constraint2 ==
    [i \in 1..NumKeys |->
        [op |-> "sum==1", cells |-> [j \in 1..NumKeys |-> <<i - 1, j - 1>>]]]

\* line 95: constraint3 = [cp.sum(X[:,j]) == 1 for j in range(10)]
constraint3 ==
    [j \in 1..NumKeys |->
        [op |-> "sum==1", cells |-> [i \in 1..NumKeys |-> <<i - 1, j - 1>>]]]

\* the integer matrices that satisfy the constraints cons
KeyboardFeasible(cons) ==
    UNION {FeasibleX(across, NumKeys, rows) :
              across \in {AcrossRows(cons, NumKeys)},
              rows \in {AllRowCandidates(cons, NumKeys, NumKeys)}}

KeyboardFrame == UNCHANGED <<lp_data, harness, queens_in, graph_in, chebyshev_in, W, ret>>

\* lines 44-96: the variable, the costs, the objective and the constraints
KB_Constraints ==
    /\ pc = "kb_start"
    /\ constraints' = constraint1 \o constraint2 \o constraint3
    /\ pc' = "kb_solve"
    /\ UNCHANGED <<keyboard_in, X>>
    /\ KeyboardFrame

\* lines 105-107: problem.solve() leaves an optimal assignment in X.value
KB_Solve ==
    /\ pc = "kb_solve"
    /\ \E F \in {KeyboardFeasible(constraints)} :
         \E cost \in {[Yv \in F |->
                         KeyboardCost(CostOuter(comfort_levels, frequency_ranking), Yv)]} :
           \E Xv \in F :
             /\ \A Yv \in F : RLeq(cost[Xv], cost[Yv])
             /\ X' = Xv
    /\ pc' = "kb_done"
    /\ UNCHANGED <<keyboard_in, constraints>>
    /\ KeyboardFrame

InitKeyboard ==
    /\ comfort_levels \in [1..NumKeys -> 1..NumKeys]
    /\ frequency_ranking \in Orderings({<<1, k>> : k \in 1..NumKeys})
    /\ distances = None
    /\ C = None
    /\ pc = "kb_start"
    /\ IdleQueens
    /\ IdleGraph
    /\ IdleChebyshev
    /\ IdleCvxState
    /\ IdleLP
    /\ IdleHarness

NextKeyboard == KB_Constraints \/ KB_Solve

SpecKeyboard == InitKeyboard /\ [][NextKeyboard]_vars

-----------------------------------------------------------------------------
(* The cost of re-arranging keys, Keyboard_num_row_optimization.qmd lines   *)
(* 127-141.  The loop variables i and j are cell[1] and cell[2].            *)

\* line 128: dist_scale = 0.2
dist_scale == Rat(1, 5)

RearrangeFrame ==
    UNCHANGED <<lp_data, harness, nq, level, diagonal, graph_in, chebyshev_in,
                comfort_levels, frequency_ranking, cvx_state>>

\* line 132: distances = np.zeros((10, 10))
KD_Zeros ==
    /\ pc = "kd_start"
    /\ distances' = [p \in 0..(NumKeys - 1) |-> [q \in 0..(NumKeys - 1) |-> 0]]
    /\ cell' = <<0, 1>>
    /\ pc' = "kd_loop"
    /\ UNCHANGED C
    /\ RearrangeFrame

\* lines 133-135: for i in range(10): for j in range(1,11):
\* distances[j - 1, i] = abs(j - i - 1)
KD_Cell ==
    /\ pc = "kd_loop"
    /\ distances' = [distances EXCEPT ![cell[2] - 1][cell[1]] = Abs(cell[2] - cell[1] - 1)]
    /\ IF cell[2] < NumKeys
       THEN cell' = <<cell[1], cell[2] + 1>> /\ pc' = "kd_loop"
       ELSE IF cell[1] < NumKeys - 1
       THEN cell' = <<cell[1] + 1, 1>> /\ pc' = "kd_loop"
       ELSE cell' = cell /\ pc' = "kd_cost"
    /\ UNCHANGED C
    /\ RearrangeFrame

\* line 141: C = np.outer(comfort_levels, frequency_ranking) + (dist_scale * distances)
KD_Cost ==
    /\ pc = "kd_cost"
    /\ C' = [p \in 0..(NumKeys - 1) |->
               [q \in 0..(NumKeys - 1) |->
                   RAdd(CostOuter(comfort_levels, frequency_ranking)[p][q],
                        RMulInt(distances[p][q], dist_scale))]]
    /\ pc' = "kd_done"
    /\ UNCHANGED <<distances, cell>>
    /\ RearrangeFrame

InitRearrange ==
    /\ comfort_levels \in [1..NumKeys -> 1..NumKeys]
    /\ frequency_ranking \in Orderings({<<1, k>> : k \in 1..NumKeys})
    /\ distances = None
    /\ C = None
    /\ pc = "kd_start"
    /\ IdleQueens
    /\ IdleGraph
    /\ IdleChebyshev
    /\ IdleCvxState
    /\ IdleLP
    /\ IdleHarness

NextRearrange == KD_Zeros \/ KD_Cell \/ KD_Cost

SpecRearrange == InitRearrange /\ [][NextRearrange]_vars

-----------------------------------------------------------------------------
(* chebyshev_center, part_002 lines 155-177 *)

\* the greatest coordinate of a point
MaxCoord == 2

\* the most points handed to the function
MaxPoints == 3

\* the dimensions n of the points
Dimensions == {1, 2}

\* the matrices P: m points with n integer coordinates
PointSets ==
    UNION {[1..m -> [1..n -> 0..MaxCoord]] : m \in 1..MaxPoints, n \in Dimensions}

\* the product of two fractions
RMul(x, y) == Rat(x[1] * y[1], x[2] * y[2])

\* cp.norm(X - p) squared, for a center x of fractions and an integer point p
SqNorm(x, p) ==
    RSumTo([j \in 1..Len(p) |->
              RMul(RSub(x[j], RatOf(p[j])), RSub(x[j], RatOf(p[j])))], Len(p))

\* the square of the least r that satisfies the constraints at the center x
SqRadius(cons, x) ==
    RMax({SqNorm(x, cons[i].p) : i \in 1..Len(cons)})

\* the point at equal distance from p and q on their segment
Midpoint(p, q) == [j \in 1..Len(p) |-> Rat(p[j] + q[j], 2)]

\* the point of the plane at equal distance from p, q and s, when they are
\* not on one line
Circumcenter(p, q, s) ==
    linalg_solve(<<<<2 * (q[1] - p[1]), 2 * (q[2] - p[2])>>,
                   <<2 * (s[1] - p[1]), 2 * (s[2] - p[2])>>>>,
                 <<q[1] * q[1] + q[2] * q[2] - p[1] * p[1] - p[2] * p[2],
                   s[1] * s[1] + s[2] * s[2] - p[1] * p[1] - p[2] * p[2]>>)

\* the centers among which the smallest enclosing ball is found: it has two
\* or three of the points on its boundary
Centers(cons) ==
    LET P == {cons[i].p : i \in 1..Len(cons)}
    IN  {Midpoint(p, q) : p, q \in P}
        \cup (IF Len(cons[1].p) = 2
              THEN {Circumcenter(p, q, s).x :
                      <<p, q, s>> \in {t \in P \X P \X P :
                                         Circumcenter(t[1], t[2], t[3]).ok}}
              ELSE {})

ChebyshevFrame ==
    UNCHANGED <<lp_data, harness, queens_in, graph_in, keyboard_in, W>>

\* lines 164-172: the variables, the objective and one constraint per point
CC_Build ==
    /\ pc = "cc_call"
    /\ constraints' = [i \in 1..Len(points) |-> [op |-> "norm<=r", p |-> points[i]]]
    /\ pc' = "cc_solve"
    /\ UNCHANGED <<points, radius, X, ret>>
    /\ ChebyshevFrame

\* lines 174-175: problem.solve() leaves the center of the smallest enclosing
\* ball in X.value and its radius in r.value (kept as its square)
CC_Solve ==
    /\ pc = "cc_solve"
    /\ \E cs \in {{y : y \in Centers(constraints)}} :
         \E sq \in {[x \in cs |-> SqRadius(constraints, x)]} :
           \E x \in cs :
             /\ \A y \in cs : RLeq(sq[x], sq[y])
             /\ X' = [shape |-> "vector", value |-> x]
             /\ radius' = [shape |-> "scalar", squared |-> sq[x]]
    /\ pc' = "cc_solved"
    /\ UNCHANGED <<points, constraints, ret>>
    /\ ChebyshevFrame

\* line 177: return objective.value, X.value
CC_Return ==
    /\ pc = "cc_solved"
    /\ ret' = <<radius, X>>
    /\ pc' = "cc_done"
    /\ UNCHANGED <<points, radius, constraints, X>>
    /\ ChebyshevFrame

InitChebyshev ==
    /\ points \in PointSets
    /\ radius = None
    /\ pc = "cc_call"
    /\ IdleQueens
    /\ IdleGraph
    /\ IdleKeyboard
    /\ IdleCvxState
    /\ IdleLP
    /\ IdleHarness

NextChebyshev == CC_Build \/ CC_Solve \/ CC_Return

SpecChebyshev == InitChebyshev /\ [][NextChebyshev]_vars

-----------------------------------------------------------------------------
(* Properties *)

\* LP_exhaustive_search has ended, with a value or an exception
Ended == pc \in {"done", "raised", "AssertionError"}

\* get_vertices has returned its list (it did not raise)
GetVerticesReturned == Ended /\ exhaustive_res.at # "b_stacked"

Scenario1 == << <<<<1, 1>>, <<1, 0>>>>, <<4, 2>>, <<3, 2>> >>

Scenario2 == << <<<<1>>>>, <<5>>, <<1>> >>

\* C1: for a feasible and bounded problem (the reference solver reports an
\* optimum), LP_exhaustive_search returns a value and it is within 1e-5 of
\* LP_simplex(A, b, c).fun.
C1_Agreement ==
    (Ended /\ scipy_res.status = "optimal") =>
        /\ exhaustive_res.kind = "value"
        /\ RLeqTol(RAbs(RSub(exhaustive_res.val, scipy_res.fun)), AssertDecimals)

\* a feasible bounded problem whose optimum is not an integer has been solved
C1_Witness ==
    /\ pc = "done"
    /\ scipy_res.status = "optimal"
    /\ exhaustive_res.kind = "value"
    /\ exhaustive_res.val[2] = 3
    /\ exhaustive_res.val = scipy_res.fun

\* C2: in the comparison loop the assert of line 221 never fails, whatever
\* problem generate_random_LPP returned.
C2_AssertNeverFails == pc # "AssertionError"

\* C3: when no candidate survives the feasibility filter, LP_exhaustive_search
\* ends with an explicit no-solution outcome: neither an exception nor a number.
C3_ExplicitNoSolution ==
    (GetVerticesReturned /\ WellFormed(A, b, c) /\ feasible_vertices = << >>) =>
        exhaustive_res.kind \notin {"raise", "value"}

-----------------------------------------------------------------------------
(* The true maximum, by linear programming duality: v is the maximum of c.x *)
(* over {x >= 0, A x <= b} when a feasible x attains it and a feasible y of *)
(* the dual {y >= 0, A^T y >= c} has b.y = v.                               *)

Transpose(A_) ==
    [j \in 1..NumCols(A_) |-> [i \in 1..NumRows(A_) |-> A_[i][j]]]

PrimalFeasible(A_, b_, x) ==
    /\ \A j \in 1..Len(x) : RLeq(RatOf(0), x[j])
    /\ \A i \in 1..NumRows(A_) : RLeq(Dot(A_[i], x), RatOf(b_[i]))

DualFeasible(A_, c_, y) ==
    /\ \A i \in 1..Len(y) : RLeq(RatOf(0), y[i])
    /\ \A j \in 1..NumCols(A_) : RLeq(RatOf(c_[j]), Dot(Transpose(A_)[j], y))

\* the basic solutions of the dual
DualPoints(A_, c_) ==
    LET m == NumRows(A_)
        n == NumCols(A_)
        T == Transpose(A_) \o eye(m)
        rhs == c_ \o zeros(m)
        cs == combinations(n + m, m)
        sol(k) == linalg_solve([i \in 1..m |-> T[cs[k][i] + 1]],
                               [i \in 1..m |-> rhs[cs[k][i] + 1]])
    IN  {sol(k).x : k \in {q \in 1..Len(cs) : sol(q).ok}}

IsTrueMaximum(A_, b_, c_, fv, v) ==
    /\ \E i \in 1..Len(fv) : PrimalFeasible(A_, b_, fv[i]) /\ Dot(c_, fv[i]) = v
    /\ \E y \in DualPoints(A_, c_) : DualFeasible(A_, c_, y) /\ Dot(b_, y) = v

\* C4: for a feasible bounded problem LP_exhaustive_search returns minus the
\* true maximum of c.x over {x >= 0, A x <= b}; A=[[1,1],[1,0]], b=[4,2],
\* c=[3,2] gives -10, attained at (2,2), and A=[[1]], b=[5], c=[1] gives -5,
\* attained at x = 5.
C4_TrueMaximum ==
    /\ (Ended /\ scipy_res.status = "optimal") =>
          /\ exhaustive_res.kind = "value"
          /\ IsTrueMaximum(A, b, c, feasible_vertices, RNeg(exhaustive_res.val))
    /\ (Ended /\ <<A, b, c>> = Scenario1) =>
          /\ exhaustive_res = Returned(RatOf(-10))
          /\ \E i \in 1..Len(feasible_vertices) :
                feasible_vertices[i] = <<RatOf(2), RatOf(2)>>
    /\ (Ended /\ <<A, b, c>> = Scenario2) =>
          /\ exhaustive_res = Returned(RatOf(-5))
          /\ \E i \in 1..Len(feasible_vertices) : feasible_vertices[i] = <<RatOf(5)>>

\* the first scenario has been solved
C4_Witness ==
    /\ pc = "done"
    /\ <<A, b, c>> = Scenario1
    /\ scipy_res.status = "optimal"
    /\ exhaustive_res.val = RatOf(-10)

\* C5: on a problem whose dimensions disagree the exhaustive solver takes no
\* row combination and returns no value.
C5_FailFast ==
    ~WellFormed(A, b, c) => (visited = << >> /\ exhaustive_res.kind # "value")


\* C6: the bare except of get_vertices swallows nothing but the singular
\* subsystem (LinAlgError); every other exception reaches the caller.
C6_OnlySingularSuppressed == suppressed \subseteq {"LinAlgError"}

-----------------------------------------------------------------------------

\* the n x n subsystem of a row combination has no unique solution
Singular(A_, row_combo) == Det(A_constraints(A_, row_combo)) = 0

NonSingularOnly(A_, cs) == SelectSeq(cs, LAMBDA rc : ~Singular(A_, rc))

\* C7: a singular subsystem never aborts get_vertices: no LinAlgError leaves
\* it, every combination of the enumeration has been taken when it returns,
\* and the returned list is the one obtained from the enumeration with the
\* singular combinations removed.
C7_SingularSkipped ==
    /\ exhaustive_res.exc # "LinAlgError"
    /\ GetVerticesReturned =>
          /\ visited = row_index_combinations(A)
          /\ feasible_vertices =
                Collect(A, b, NonSingularOnly(A, row_index_combinations(A)))

\* the first combination was singular and vertices were found after it
C7_Witness ==
    /\ pc = "done"
    /\ Singular(A, visited[1])
    /\ "LinAlgError" \in suppressed
    /\ Len(feasible_vertices) >= 2

\* C8: every point in the list of get_vertices is feasible for the original
\* problem: each coordinate is >= -1e-10 and A x <= b + 1e-10 in each of the
\* m rows.
C8_VerticesFeasible ==
    Len(b) >= NumRows(A) =>
        \A k \in 1..Len(feasible_vertices) :
            /\ \A j \in 1..Len(feasible_vertices[k]) :
                  RLeqTol(RNeg(feasible_vertices[k][j]), FeasTolExp)
            /\ \A i \in 1..NumRows(A) :
                  RLeqTol(RSub(Dot(A[i], feasible_vertices[k]), RatOf(b[i])),
                          FeasTolExp)

\* four vertices were returned, one with a coordinate that is not an integer,
\* and some candidate was turned down
C8_Witness ==
    /\ pc = "done"
    /\ Len(feasible_vertices) = 4
    /\ \E k \in 1..4 : \E j \in 1..2 : feasible_vertices[k][j][2] > 1
    /\ suppressed = {}
    /\ Len(visited) > 4

-----------------------------------------------------------------------------

RECURSIVE Binomial(_, _)
\* C(N, k)
Binomial(N, k) ==
    IF k = 0 THEN 1 ELSE (Binomial(N, k - 1) * (N - k + 1)) \div k

Range(f) == {f[i] : i \in 1..Len(f)}

\* C9: get_vertices takes exactly C(m+n, n) row combinations: every n-element
\* subset of the m+n row indices exactly once and nothing else; for m = 12 and
\* n = 10 that is 646646.
C9_AllCombinations ==
    LET m == NumRows(A)
        n == NumCols(A)
    IN  /\ GetVerticesReturned =>
              /\ Len(visited) = Binomial(m + n, n)
              /\ \A i \in 1..Len(visited) :
                    /\ Len(visited[i]) = n
                    /\ Cardinality(Range(visited[i])) = n
                    /\ Range(visited[i]) \subseteq 0..(m + n - 1)
              /\ \A S \in {T \in SUBSET (0..(m + n - 1)) : Cardinality(T) = n} :
                    Cardinality({i \in 1..Len(visited) : Range(visited[i]) = S}) = 1
        /\ pc = "loop" => Len(visited) + Len(combos) = Binomial(m + n, n)
        /\ Binomial(12 + 10, 10) = 646646

\* a 2 x 2 problem went through all its 6 combinations
C9_Witness ==
    /\ pc = "done"
    /\ NumRows(A) = 2
    /\ NumCols(A) = 2
    /\ Len(visited) = 6

\* C10: a call of LP_exhaustive_search with the arguments of a remembered
\* call ends with the remembered outcome, whatever calls were made in between.
C10_Deterministic ==
    (memo.set /\ Ended /\ <<A, b, c>> = <<memo.A, memo.b, memo.c>>) =>
        exhaustive_res = memo.res

\* the remembered problem was solved again after a call with other arguments
C10_Witness ==
    /\ memo.set
    /\ memo.calls = MaxLater
    /\ memo.other
    /\ pc = "done"
    /\ <<A, b, c>> = <<memo.A, memo.b, memo.c>>
    /\ exhaustive_res.kind = "value"
    /\ Len(feasible_vertices) >= 2

-----------------------------------------------------------------------------

\* a step of one of the two solvers leaves A, b and c alone
SolverStepKeepsArrays ==
    pc \in {"simplex", "call", "loop"} => (A' = A /\ b' = b /\ c' = c)

\* C11: get_vertices, LP_exhaustive_search and LP_simplex leave the caller's
\* A, b and c as they were: no step of the two solvers (the snap-to-zero
\* write included, which goes to the freshly solved point) changes them, so
\* within a pass of the comparison loop both solvers work on the same problem.
C11_CallerArraysUnchanged ==
    [][SolverStepKeepsArrays]_vars

\* both solvers have run on a problem one of whose vertices has a zero
\* coordinate
C11_Witness ==
    /\ pc = "done"
    /\ scipy_res.status = "optimal"
    /\ Len(feasible_vertices) >= 3
    /\ \E k \in 1..Len(feasible_vertices) :
          /\ feasible_vertices[k][1] = RatOf(0)
          /\ feasible_vertices[k][2] # RatOf(0)

C13_Runs150Iterations ==
    pc = "end" =>
        /\ iteration = 150
        /\ Len(scipy_test_results) = 150
        /\ Len(exhaustive_test_results) = 150
        /\ scipy_test_results = exhaustive_test_results

-----------------------------------------------------------------------------

\* the subsystem of row_combo has a unique solution, and it satisfies x >= 0
\* and the m original constraints A x <= b + 1e-10
Admitted(A_, b_, row_combo) ==
    LET s == linalg_solve(A_constraints(A_, row_combo),
                          b_constraints(A_, b_, row_combo))
    IN  /\ s.ok
        /\ \A j \in 1..Len(s.x) : RLeq(RatOf(0), s.x[j])
        /\ \A i \in 1..NumRows(A_) :
              RLeqTol(RSub(Dot(A_[i], s.x), RatOf(b_[i])), FeasTolExp)

\* x lies on every hyperplane of row_combo
SolvesSubsystem(A_, b_, row_combo, x) ==
    \A k \in 1..Len(row_combo) :
        Dot(A_constraints(A_, row_combo)[k], x)
            = RatOf(b_constraints(A_, b_, row_combo)[k])

\* C19: the list get_vertices returns has exactly one entry for each n-row
\* combination whose subsystem is nonsingular and whose solution satisfies
\* x >= 0 and the m original constraints A x <= b + 1e-10, in the order of the
\* enumeration, and no other entry; a point reached by several combinations
\* is in the list once for each of them.
C19_OneEntryPerCombination ==
    (GetVerticesReturned /\ Len(b) = NumRows(A)) =>
        LET good == SelectSeq(row_index_combinations(A),
                              LAMBDA rc : Admitted(A, b, rc))
        IN  /\ Len(feasible_vertices) = Len(good)
            /\ \A i \in 1..Len(good) :
                  SolvesSubsystem(A, b, good[i], feasible_vertices[i])

\* a degenerate vertex is in the list twice, and other combinations were
\* singular or infeasible
C19_Witness ==
    /\ pc = "done"
    /\ Len(b) = NumRows(A)
    /\ \E i, j \in 1..Len(feasible_vertices) :
          i < j /\ feasible_vertices[i] = feasible_vertices[j]
    /\ "LinAlgError" \in suppressed
    /\ Len(visited) = 6
    /\ Len(feasible_vertices) = 3

\* C20: the augmented system has m + n rows: rows 0..m-1 are the rows of A
\* with right-hand sides b, row m+j is the j-th unit vector with right-hand
\* side 0, and the solution of a combination that holds row m+j has x_j = 0.
C20_AugmentedSystem ==
    LET m == NumRows(A)
        n == NumCols(A)
    IN  Len(b) = m =>
          /\ Len(A_stacked(A)) = m + n
          /\ Len(b_stacked(A, b)) = m + n
          /\ \A i \in 1..m :
                A_stacked(A)[i] = A[i] /\ b_stacked(A, b)[i] = b[i]
          /\ \A j \in 0..(n - 1) :
                /\ A_stacked(A)[m + j + 1] =
                      [k \in 1..n |-> IF k = j + 1 THEN 1 ELSE 0]
                /\ b_stacked(A, b)[m + j + 1] = 0
          /\ visited # << >> =>
                LET rc == visited[Len(visited)]
                    r  == Candidate(A, b, rc)
                IN  r.kind \in {"vertex", "rejected"} =>
                       \A k \in 1..n :
                           rc[k] >= m => r.x[rc[k] - m + 1] = RatOf(0)

\* a vertex was found on row 0 and row m+1 of a 2 x 2 problem: x_1 = 0 and
\* x_0 > 0
C20_Witness ==
    /\ pc = "loop"
    /\ NumRows(A) = 2
    /\ NumCols(A) = 2
    /\ Len(b) = 2
    /\ visited # << >>
    /\ visited[Len(visited)] = <<0, 3>>
    /\ Candidate(A, b, <<0, 3>>).kind = "vertex"
    /\ feasible_vertices[Len(feasible_vertices)][2] = RatOf(0)
    /\ RLt(RatOf(0), feasible_vertices[Len(feasible_vertices)][1])

-----------------------------------------------------------------------------

\* the squares that hold a queen
Queens(Xv, size) ==
    {ij \in (0..(size - 1)) \X (0..(size - 1)) : Xv[ij[1]][ij[2]] # 0}

\* two queens on one row, column, diagonal or anti-diagonal
Attack(p, q) ==
    \/ p[1] = q[1]
    \/ p[2] = q[2]
    \/ p[1] - p[2] = q[1] - q[2]
    \/ p[1] + p[2] = q[1] + q[2]

\* C14: for every board size n >= 1 the placement ip_nqueens(n) returns has no
\* two queens that attack each other: at most one queen in each row, column,
\* diagonal and anti-diagonal.
C14_NoAttack ==
    pc = "nq_done" =>
        /\ \A i, j \in 0..(nq - 1) : ret[i][j] \in {0, Pow10(PlacementDecimals)}
        /\ \A p, q \in Queens(ret, nq) : p # q => ~Attack(p, q)

\* inflow minus outflow at node k for the flows f, one per edge of G_
NetInflow(G_, f, k) ==
    SumTo([e \in 1..Len(f) |-> incidence_matrix(G_)[k + 1][e] * f[e]], Len(f))

\* the number of edges that touch node k
Incident(G_, k) ==
    Cardinality({e \in 1..Len(G_.edges) : k \in {G_.edges[e][1], G_.edges[e][2]}})

\* C15 as stated: every flow min_cost_network_flow returns is non-negative on
\* every edge and balanced with equality at every node (inflow minus outflow
\* equals the demand b_k), the demands summing to zero.
C15_ReturnedFlowBalanced ==
    pc = "mcf_done" =>
        /\ \A e \in 1..Len(ret.flow_dict) : ret.flow_dict[e] >= 0
        /\ \A k \in 0..(Len(G.demand) - 1) :
              NetInflow(G, ret.flow_dict, k) = G.demand[k + 1] * Pow10(FlowDecimals)

\* C15 amended: the solution X.value is non-negative and balanced with
\* equality; the returned flow is X.value rounded to 4 decimals, so it is
\* non-negative and balanced at node k to within half of 10^-4 per edge at k.
C15_BalancedUpToRounding ==
    pc = "mcf_done" =>
        /\ \A e \in 1..Len(X) : RLeq(RatOf(0), X[e])
        /\ \A k \in 0..(Len(G.demand) - 1) :
              Dot(incidence_matrix(G)[k + 1], X) = RatOf(G.demand[k + 1])
        /\ \A e \in 1..Len(ret.flow_dict) : ret.flow_dict[e] >= 0
        /\ \A k \in 0..(Len(G.demand) - 1) :
              2 * Abs(NetInflow(G, ret.flow_dict, k)
                      - G.demand[k + 1] * Pow10(FlowDecimals))
                  <= Incident(G, k)

\* a flow was returned in which rounding changed the flow of some edge
C15_Witness ==
    /\ pc = "mcf_done"
    /\ \E e \in 1..Len(X) :
          Rat(ret.flow_dict[e], Pow10(FlowDecimals)) # X[e]

\* C16: for every graph G with the node labels 0..|V|-1 the assignment that
\* graph_coloring(G) returns gives every vertex exactly one color (each row of
\* X has a single 1 and zeros elsewhere) and no edge (u, v) has both endpoints
\* of one color.
C16_ProperColoring ==
    pc = "gc_done" =>
        /\ \A i \in 0..(G.nodes - 1) :
              /\ \A j \in 0..(G.nodes - 1) : ret[i][j] \in {0, 1}
              /\ Cardinality({j \in 0..(G.nodes - 1) : ret[i][j] = 1}) = 1
        /\ \A e \in 1..Len(G.edges) :
              \A j \in 0..(G.nodes - 1) :
                  ~(ret[G.edges[e][1]][j] = 1 /\ ret[G.edges[e][2]][j] = 1)

\* a coloring was returned for a graph with two edges or more
C16_Witness ==
    /\ pc = "gc_done"
    /\ Len(G.edges) >= 2
    /\ \E j \in 0..(G.nodes - 1) : ret[G.edges[1][1]][j] = 1

\* Xv is a permutation matrix: entries 0 or 1, one 1 in each row and column
IsPermutationMatrix(Xv, n) ==
    /\ \A i, j \in 0..(n - 1) : Xv[i][j] \in {0, 1}
    /\ \A i \in 0..(n - 1) : Cardinality({j \in 0..(n - 1) : Xv[i][j] = 1}) = 1
    /\ \A j \in 0..(n - 1) : Cardinality({i \in 0..(n - 1) : Xv[i][j] = 1}) = 1

\* C17: every feasible assignment of the keyboard model is a bijection between
\* the positions and the numbers: X is a permutation matrix with entries 0 or
\* 1 only, each position holding one number and each number at one position.
C17_FeasibleIsPermutation ==
    /\ pc = "kb_solve" =>
          \A Xv \in KeyboardFeasible(constraints) : IsPermutationMatrix(Xv, NumKeys)
    /\ pc = "kb_done" => IsPermutationMatrix(X, NumKeys)

\* the model was solved and the assignment moves the first number
C17_Witness ==
    /\ pc = "kb_done"
    /\ X[0][0] = 0
    /\ X \in KeyboardFeasible(constraints)

\* C18: chebyshev_center(P) returns a tuple (x, r): the first component is the
\* center of the ball, the second its radius, as the docstring states.
C18_CenterThenRadius ==
    pc = "cc_done" =>
        /\ ret[1].shape = "vector"
        /\ ret[1] = X
        /\ ret[2].shape = "scalar"
        /\ ret[2] = radius

-----------------------------------------------------------------------------

\* -c.x of a point x, from c.x
MinusCx(c_, x) == RNeg(Dot(c_, x))

\* C21: LP_exhaustive_search returns the minimum of -c.x over exactly the
\* points get_vertices(A, b) returned: the value is attained by one of them
\* and none of them has a smaller -c.x.
C21_MinOverVertices ==
    pc = "done" =>
        /\ exhaustive_res.kind = "value"
        /\ feasible_vertices = get_vertices(A, b).list
        /\ \E i \in 1..Len(feasible_vertices) :
              MinusCx(c, feasible_vertices[i]) = exhaustive_res.val
        /\ \A i \in 1..Len(feasible_vertices) :
              RLeq(exhaustive_res.val, MinusCx(c, feasible_vertices[i]))

\* a value was returned that is the objective of neither the first nor the
\* last of the vertices found
C21_Witness ==
    /\ pc = "done"
    /\ Len(feasible_vertices) >= 3
    /\ MinusCx(c, feasible_vertices[1]) # exhaustive_res.val
    /\ MinusCx(c, feasible_vertices[Len(feasible_vertices)]) # exhaustive_res.val

-----------------------------------------------------------------------------

\* the coordinate f lies strictly between -1e-14 and 1e-14
Tiny(f) ==
    /\ f.exact = RatOf(0)
    /\ -Pow10(NoiseExp - SnapTolExp) < f.noise
    /\ f.noise < Pow10(NoiseExp - SnapTolExp)

\* the coordinate f is below 0
Negative(f) == RLt(f.exact, RatOf(0)) \/ (f.exact = RatOf(0) /\ f.noise < 0)

\* the array x with its coordinates strictly between -1e-14 and 1e-14 at 0
TinyAtZero(x) ==
    [j \in 1..Len(x) |-> IF Tiny(x[j]) THEN Float(RatOf(0), 0) ELSE x[j]]

\* C22: in get_vertices every coordinate of a solved candidate with absolute
\* value below 1e-14 is exactly 0 when the feasibility test runs and every
\* other coordinate is as the solve returned it; so a candidate whose only
\* negative coordinates lie in (-1e-14, 0) passes the test x >= 0 and, being
\* within the inequality rows, is stored with those coordinates equal to 0.
C22_SnapBeforeTest ==
    /\ pc = "fs_test" => solved.x = TinyAtZero(solved.returned)
    /\ (pc = "fs_next" /\ solved # None) =>
          /\ solved.x = TinyAtZero(solved.returned)
          /\ ((\A j \in 1..Len(solved.returned) :
                   Negative(solved.returned[j]) => Tiny(solved.returned[j]))
               /\ ConstraintsHoldFloat(A, b, solved.returned))
              => feasible_vertices = <<TinyAtZero(solved.returned)>>

\* a candidate with a coordinate in (-1e-14, 0) and another coordinate of
\* 1e-14 or more was stored, the first at 0 and the second as it was
C22_Witness ==
    /\ pc = "fs_next"
    /\ Len(feasible_vertices) = 1
    /\ \E j \in 1..Len(solved.returned) :
          /\ Tiny(solved.returned[j]) /\ Negative(solved.returned[j])
          /\ feasible_vertices[1][j] = Float(RatOf(0), 0)
    /\ \E j \in 1..Len(solved.returned) :
          /\ solved.returned[j].exact = RatOf(0)
          /\ solved.returned[j].noise = Pow10(NoiseExp - SnapTolExp)
          /\ feasible_vertices[1][j] = solved.returned[j]

-----------------------------------------------------------------------------

\* C23: across any sequence of calls the list of feasible vertices is empty
\* when get_vertices starts and, from then on, holds exactly the points the
\* filter admits among the combinations this call has taken, computed from
\* this call's A and b: nothing of an earlier call is in it.
C23_FreshPerCall ==
    /\ (pc = "loop" /\ visited = << >>) => feasible_vertices = << >>
    /\ pc \in {"loop", "done", "raised"} =>
          feasible_vertices = Collect(A, b, visited)

\* a call that found vertices was followed by a call with other arguments,
\* which returned a list without the first vertex of the earlier call
C23_Witness ==
    /\ memo.set
    /\ memo.calls = 1
    /\ memo.other
    /\ memo.res.kind = "value"
    /\ pc = "done"
    /\ Len(feasible_vertices) >= 2
    /\ Len(get_vertices(memo.A, memo.b).list) >= 2
    /\ \A i \in 1..Len(feasible_vertices) :
          feasible_vertices[i] # get_vertices(memo.A, memo.b).list[1]

-----------------------------------------------------------------------------

\* C24: LP_simplex(A, b, c) returns what the reference solver reports for
\* minimize -c.x subject to A x <= b and x >= 0: with status optimal, fun is
\* minus the maximum of c.x over that set; with status infeasible the set is
\* empty (it has no vertex); with status unbounded the set is not empty and
\* c.x has no maximum on it (the dual has no feasible point).
C24_SimplexProblem ==
    (pc = "call" /\ WellFormed(A, b, c)) =>
        /\ scipy_res.status \in {"optimal", "infeasible", "unbounded"}
        /\ scipy_res.status = "optimal" =>
              IsTrueMaximum(A, b, c, get_vertices(A, b).list, RNeg(scipy_res.fun))
        /\ scipy_res.status = "infeasible" => get_vertices(A, b).list = << >>
        /\ scipy_res.status = "unbounded" =>
              /\ get_vertices(A, b).list # << >>
              /\ \A y \in DualPoints(A, c) : ~DualFeasible(A, c, y)

\* LP_simplex returned an optimum below 0 for an objective with a negative
\* coefficient, for which the minimum of c.x is another value
C24_Witness ==
    /\ pc = "call"
    /\ WellFormed(A, b, c)
    /\ scipy_res.status = "optimal"
    /\ RLt(scipy_res.fun, RatOf(0))
    /\ \E j \in 1..Len(c) : c[j] < 0
    /\ \A r \in linprog(c, A, b) : r # scipy_res

-----------------------------------------------------------------------------

\* f gives the two ends of every edge of G_ different colors
Proper(G_, f) ==
    \A e \in 1..Len(G_.edges) : f[G_.edges[e][1]] # f[G_.edges[e][2]]

\* the least number of colors of a proper coloring of G_
ChromaticNumber(G_) ==
    Min({k \in 1..G_.nodes :
            \E f \in [0..(G_.nodes - 1) -> 0..(k - 1)] : Proper(G_, f)})

\* the colors some vertex has in the assignment Xv
ColorsUsed(Xv, n) == {j \in 0..(n - 1) : \E i \in 0..(n - 1) : Xv[i][j] = 1}

\* C25: in every optimal solution of the graph_coloring model W[j] is 1 when
\* some vertex has the color j and 0 otherwise, and the optimal cp.sum(W) is
\* the number of colors in use, which is the chromatic number of G.
C25_CountsColors ==
    pc = "gc_optimal" =>
        /\ \A j \in 0..(G.nodes - 1) :
              W[j] = IF j \in ColorsUsed(X, G.nodes) THEN 1 ELSE 0
        /\ TotalTo(W, G.nodes) = Cardinality(ColorsUsed(X, G.nodes))
        /\ TotalTo(W, G.nodes) = ChromaticNumber(G)

\* an optimal solution for a graph of chromatic number 2 on 3 vertices, none
\* of them of the color 0
C25_Witness ==
    /\ pc = "gc_optimal"
    /\ G.nodes = 3
    /\ Cardinality(ColorsUsed(X, 3)) = 2
    /\ W[0] = 0
    /\ X[0][1] = 1
    /\ X[1][2] = 1

-----------------------------------------------------------------------------

RECURSIVE TransportCost(_, _)
\* the sum over the edges (i, j, c_ij) of c_ij * x_ij, each edge with the flow
\* at its own place in x
TransportCost(edges, x) ==
    IF edges = << >> THEN RatOf(0)
    ELSE RAdd(RMulInt(Head(edges)[3], Head(x)), TransportCost(Tail(edges), Tail(x)))

\* the flow min_cost_network_flow returned, as fractions
ReturnedFlow == [e \in 1..Len(ret.flow_dict) |-> Rat(ret.flow_dict[e], Pow10(FlowDecimals))]

\* C26 as stated: the cost returned by min_cost_network_flow is the linear
\* transport cost, the sum over the edges of c_ij * x_ij, of the returned flow.
C26_CostOfReturnedFlow ==
    pc = "mcf_done" => ret.cost = TransportCost(G.edges, ReturnedFlow)

\* C26, amended: the cost returned by min_cost_network_flow is the linear
\* transport cost of the solution X.value, with and without congestion, each
\* weight with the flow of its own edge; the returned flow is X.value rounded
\* to 4 decimals, and the cost is within 0.00005 times the sum of the weights
\* of the transport cost of the returned flow.
C26_LinearCostOfSolution ==
    pc = "mcf_done" =>
        /\ ret.cost = TransportCost(G.edges, X)
        /\ RLeq(RAbs(RSub(ret.cost, TransportCost(G.edges, ReturnedFlow))),
                Rat(SumTo(Weights(G), Len(G.edges)), 2 * Pow10(FlowDecimals)))

\* a flow was returned with congestion whose cost is neither the quadratic
\* objective nor the transport cost of the rounded flow, on edges of
\* different weights
C26_Witness ==
    /\ pc = "mcf_done"
    /\ with_congestion
    /\ ret.cost # ObjectiveValue(Weights(G), TRUE, X)
    /\ ret.cost # TransportCost(G.edges, ReturnedFlow)
    /\ \E e, f \in 1..Len(G.edges) : G.edges[e][3] # G.edges[f][3]

-----------------------------------------------------------------------------

\* the positional index of a number in the stated layout: index 0 holds
\* number 1, the last index holds number 0
OriginalPosition(number) == (number - 1) % NumKeys

\* C27: the distance added for assigning number j to position i is the
\* number of key positions between i and the original position of number j
\* in the stated layout (index 0 holds number 1, the last index number 0), and
\* C[i][j] is comfort_levels[i] * frequency_ranking[j] plus dist_scale times
\* that distance.
C27_DistanceFromOriginal ==
    pc = "kd_done" =>
        \A i, j \in 0..(NumKeys - 1) :
            /\ distances[i][j] = Abs(i - OriginalPosition(j))
            /\ C[i][j] = RAdd(RMulInt(comfort_levels[i + 1], frequency_ranking[j + 1]),
                              RMulInt(Abs(i - OriginalPosition(j)), dist_scale))

=============================================================================
